---- MODULE Spec2Model ----
(***************************************************************************)
(* Verification model of the order-book dashboard's analytic core:         *)
(*   - the scalar light-ray price predictor (calculatePricePrediction,     *)
(*     determineEntryPoints, findOptimalPricePath),                        *)
(*   - its p5 and tensor variants,                                         *)
(*   - the order-book-momentum signal detector (calculateOBM),             *)
(*   - the page's data loader (loadData).                                  *)
(*                                                                         *)
(* Conventions.                                                            *)
(*   Arrays are functions on 0..n-1, so every index is the source's index. *)
(*   Prices are integers; a price that the code computes by a division is  *)
(*   the pair <<num, den>>.  Refractive indices are fixed-point numbers in *)
(*   units of 1/FieldScale; step costs are compared after multiplying all  *)
(*   terms by the common denominator CostDen(P, D), so that comparisons    *)
(*   are those of exact real arithmetic (IEEE rounding is not modelled).   *)
(***************************************************************************)
EXTENDS Integers, Sequences, FiniteSets, TLC

VARIABLES
    \* ---- prediction run (calculatePricePrediction and its callees) ----
    heatmapData,        \* [timestamps, priceLevels, heatmap]; heatmap[t] = volumes
    candlestickData,    \* array of closes
    pathCount,
    pc,                 \* position of the prediction run
    refractiveIndices,  \* T x P field
    entryPoints,
    allPaths,           \* paths completed so far (caller's list)
    loopI,              \* the for-loop index i of calculatePricePrediction
    result,             \* the result object
    \* ---- frame of the running findOptimalPricePath call ----
    fEntryPoint, fAllPaths, fPathIndex,
    path, currentPriceIndex, fTime, baseSearchRadius, resistanceMap,
    lastStep,           \* record of what the last loop iteration read and chose
    \* ---- tensor backend (calculatePricePredictionTensor) ----
    tensorEnabled,      \* the module-level flag
    tfRoute,            \* how the running call got its result
    \* ---- determineEntryPoints run step by step ----
    entFn,              \* which variant runs: "determineEntryPoints" or "determineEntryPointsP5"
    entHasAdjusted, entIteration,   \* the locals hasAdjusted, iteration
    marketChecked,      \* the local hasMarketPrice, "none" before the check
    \* ---- calculateOBM ----
    obmResult,          \* the result object
    obmI,               \* the signal loop's index i
    smoothed,           \* smoothedOBM[i], [i-1], [i-2] as last read
    trendNow,           \* result.trendStrength[i] || 0 as last read
    divNow,             \* divergences.bullish/bearish.includes(i) as last read
    inLongPosition, inShortPosition, lastSignalIndex,
    \* ---- calculateOpticalMomentum run step by step (on the variable path) ----
    momentumVectors, confidenceScores,   \* the two local arrays
    momI,               \* the loop index i
    \* ---- the page (app.js): module-level state and the requests of loadData ----
    lastFetchTime, cachedCandlestickData, cachedHeatmapData,
    chart,              \* what the chart element shows
    requests,           \* the loadData calls so far: what has arrived, how each ended
    buyCross            \* history: the indices i at which the loop saw a zero-cross
                        \* up with positive trend, no long position and no signal
                        \* in the 5 preceding indices

predVars == << heatmapData, candlestickData, pathCount, pc, refractiveIndices,
               entryPoints, allPaths, loopI, result,
               fEntryPoint, fAllPaths, fPathIndex,
               path, currentPriceIndex, fTime, baseSearchRadius, resistanceMap,
               lastStep >>

tfVars == << tensorEnabled, tfRoute >>

entVars == << entFn, entHasAdjusted, entIteration, marketChecked >>

obmVars == << obmResult, obmI, smoothed, trendNow, divNow,
              inLongPosition, inShortPosition, lastSignalIndex >>

\* predVars without pc
predVarsButPc == << heatmapData, candlestickData, pathCount, refractiveIndices,
                    entryPoints, allPaths, loopI, result,
                    fEntryPoint, fAllPaths, fPathIndex,
                    path, currentPriceIndex, fTime, baseSearchRadius, resistanceMap,
                    lastStep >>

momVars == << momentumVectors, confidenceScores, momI >>

loadVars == << lastFetchTime, cachedCandlestickData, cachedHeatmapData, chart, requests >>

vars == << predVars, tfVars, entVars, obmVars, momVars, loadVars, buyCross >>

----------------------------------------------------------------------------
(* Arrays and arithmetic *)

Len0(a) == Cardinality(DOMAIN a)

EmptyArr == << >>

MkArr(n, F(_)) == [k \in 0..(n - 1) |-> F(k)]

\* the new element put in front (Array.prototype.unshift)
PushFront(a, x) == [k \in 0..Len0(a) |-> IF k = 0 THEN x ELSE a[k - 1]]

Push(a, x) == [k \in 0..Len0(a) |-> IF k < Len0(a) THEN a[k] ELSE x]

Abs(x) == IF x < 0 THEN -x ELSE x

Max(a, b) == IF a >= b THEN a ELSE b

Min(a, b) == IF a <= b THEN a ELSE b

RECURSIVE MaxAbsFrom(_, _)
\* Math.max(...volumes.map(v => Math.abs(v))) over volumes[k..]
MaxAbsFrom(volumes, k) ==
    IF k >= Len0(volumes) THEN 0
    ELSE Max(Abs(volumes[k]), MaxAbsFrom(volumes, k + 1))

RECURSIVE MinFrom(_, _)
MinFrom(a, k) ==
    IF k = Len0(a) - 1 THEN a[k] ELSE Min(a[k], MinFrom(a, k + 1))

RECURSIVE MaxFrom(_, _)
MaxFrom(a, k) ==
    IF k = Len0(a) - 1 THEN a[k] ELSE Max(a[k], MaxFrom(a, k + 1))

----------------------------------------------------------------------------
(* Fixed-point units *)

\* refractive indices are held in units of 1/FieldScale
FieldScale == 10 ^ 5

\* a linear index, 1 at the row's largest volume and 3 at none
RefractiveIndexLinear(num, den) == FieldScale + (2 * FieldScale * (den - num)) \div den

\* 1 + exp(-5 * num/den) * 2 in units of 1/FieldScale, for the volume ratios
\* the bounded heatmaps produce (0, 1/2, 1); exp(-2.5) = 0.082085,
\* exp(-5) = 0.0067379
RefractiveIndexOf(num, den) ==
    CASE num = 0       -> FieldScale + 2 * FieldScale
      [] 2 * num = den -> FieldScale + 2 * 8208
      [] num = den     -> FieldScale + 2 * 674

----------------------------------------------------------------------------
(* findClosestPriceIndex: linear scan, strict <, first smallest difference *)

RECURSIVE ClosestScan(_, _, _, _, _, _)
ClosestScan(priceLevels, num, den, i, closestIndex, minDifference) ==
    IF i >= Len0(priceLevels) THEN closestIndex
    ELSE LET difference == Abs(priceLevels[i] * den - num)
         IN  IF difference < minDifference
             THEN ClosestScan(priceLevels, num, den, i + 1, i, difference)
             ELSE ClosestScan(priceLevels, num, den, i + 1, closestIndex, minDifference)

\* target price num/den
findClosestPriceIndexQ(priceLevels, num, den) ==
    ClosestScan(priceLevels, num, den, 1, 0, Abs(priceLevels[0] * den - num))

findClosestPriceIndex(priceLevels, targetPrice) ==
    findClosestPriceIndexQ(priceLevels, targetPrice, 1)

----------------------------------------------------------------------------
(* calculateRefractiveIndices *)

RefractiveRow(volumes, P) ==
    LET maxVolume == MaxAbsFrom(volumes, 0)
    IN  MkArr(P, LAMBDA j :
            IF maxVolume > 0 THEN RefractiveIndexOf(Abs(volumes[j]), maxVolume)
                             ELSE RefractiveIndexOf(0, 1))

calculateRefractiveIndices(hd) ==
    MkArr(Len0(hd.heatmap),
          LAMBDA i : RefractiveRow(hd.heatmap[i], Len0(hd.priceLevels)))

\* one cell of the gradient pass
ResistanceCell(field, priceLevels, i, j) ==
    [ price        |-> priceLevels[j],
      resistance   |-> field[i][j],
      gradientUp   |-> IF j < Len0(priceLevels) - 1
                       THEN field[i][j + 1] - field[i][j] ELSE 0,
      gradientDown |-> IF j > 0
                       THEN field[i][j] - field[i][j - 1] ELSE 0 ]

\* the gradient pass over the whole field
precomputeResistanceMap(field, priceLevels) ==
    MkArr(Len0(field), LAMBDA i :
        MkArr(Len0(priceLevels), LAMBDA j : ResistanceCell(field, priceLevels, i, j)))

----------------------------------------------------------------------------
(* determineEntryPoints (scalar variant, with the repulsion relaxation) *)

\* Math.max(1, Math.floor(priceLevels.length / (pathCount * 1.5)))
minSeparationOf(P, count) == Max(1, (2 * P) \div (3 * count))

maxIterations == 20

\* entry i of the evenly spaced generation: price = minPrice + priceRange*i/(count-1 || 1)
EvenEntry(priceLevels, count, i) ==
    LET minPrice == MinFrom(priceLevels, 0)
        maxPrice == MaxFrom(priceLevels, 0)
        den      == IF count - 1 = 0 THEN 1 ELSE count - 1
        num      == minPrice * den + (maxPrice - minPrice) * i
    IN  [ price     |-> << num, den >>,
          index     |-> findClosestPriceIndexQ(priceLevels, num, den),
          timeIndex |-> 0 ]

\* the generation loop stopping one entry short
GenerateEntriesShort(priceLevels, count) ==
    MkArr(count - 1, LAMBDA i : EvenEntry(priceLevels, count, i))

GenerateEntries(priceLevels, count) ==
    MkArr(count, LAMBDA i : EvenEntry(priceLevels, count, i))

ClampIndex(P, x) == Max(0, Min(P - 1, x))

\* body of the inner loop for one pair (i, j) that is closer than minSeparation
RepelPair(eps, i, j, priceLevels, minSeparation) ==
    LET P              == Len0(priceLevels)
        indexDiff      == Abs(eps[i].index - eps[j].index)
        forceDirection == IF eps[i].index < eps[j].index THEN -1 ELSE 1
        \* Math.ceil(force * minSeparation * 0.5), force = (minSeparation - indexDiff)/minSeparation
        \* (the same integer in IEEE doubles for every minSeparation below 25)
        adjustment     == (minSeparation - indexDiff + 1) \div 2
        ni             == ClampIndex(P, eps[i].index + forceDirection * adjustment)
        nj             == ClampIndex(P, eps[j].index - forceDirection * adjustment)
    IN  [eps EXCEPT ![i] = [@ EXCEPT !.index = ni, !.price = << priceLevels[ni], 1 >>],
                    ![j] = [@ EXCEPT !.index = nj, !.price = << priceLevels[nj], 1 >>]]

RECURSIVE RelaxPairs(_, _, _, _, _, _)
\* the two nested for-loops of one pass, from pair (i, j) on
RelaxPairs(eps, i, j, hasAdjusted, priceLevels, minSeparation) ==
    IF i >= Len0(eps) THEN [eps |-> eps, hasAdjusted |-> hasAdjusted]
    ELSE IF j >= Len0(eps)
         THEN RelaxPairs(eps, i + 1, i + 2, hasAdjusted, priceLevels, minSeparation)
         ELSE IF Abs(eps[i].index - eps[j].index) < minSeparation
              THEN RelaxPairs(RepelPair(eps, i, j, priceLevels, minSeparation),
                              i, j + 1, TRUE, priceLevels, minSeparation)
              ELSE RelaxPairs(eps, i, j + 1, hasAdjusted, priceLevels, minSeparation)

RelaxPass(eps, priceLevels, minSeparation) ==
    RelaxPairs(eps, 0, 1, FALSE, priceLevels, minSeparation)

RECURSIVE RelaxLoop(_, _, _, _, _)
\* while (hasAdjusted && iteration < maxIterations)
RelaxLoop(eps, hasAdjusted, iteration, priceLevels, minSeparation) ==
    IF hasAdjusted /\ iteration < maxIterations
    THEN LET r == RelaxPass(eps, priceLevels, minSeparation)
         IN  RelaxLoop(r.eps, r.hasAdjusted, iteration + 1, priceLevels, minSeparation)
    ELSE eps

\* "<" for "<=": an entry exactly minSeparation away does not count
hasMarketPriceWithin(eps, firstPriceIndex, minSeparation) ==
    \E k \in DOMAIN eps : Abs(eps[k].index - firstPriceIndex) < minSeparation

hasMarketPrice(eps, firstPriceIndex, minSeparation) ==
    \E k \in DOMAIN eps : Abs(eps[k].index - firstPriceIndex) <= minSeparation

\* the lower middle: differs from Math.floor(length / 2) for an even length
midIndexLow(eps) == (Len0(eps) - 1) \div 2

midIndexOf(eps) == Len0(eps) \div 2

\* "Ensure the actual market price is included"
EnsureMarketPrice(eps, priceLevels, firstPrice, minSeparation) ==
    LET firstPriceIndex == findClosestPriceIndex(priceLevels, firstPrice)
    IN  IF hasMarketPrice(eps, firstPriceIndex, minSeparation)
        THEN eps
        ELSE [k \in DOMAIN eps \cup {midIndexOf(eps)} |->
                IF k = midIndexOf(eps)
                THEN [ price     |-> << firstPrice, 1 >>,
                       index     |-> firstPriceIndex,
                       timeIndex |-> 0 ]
                ELSE eps[k]]

determineEntryPoints(hd, cd, count) ==
    LET priceLevels   == hd.priceLevels
        minSeparation == minSeparationOf(Len0(priceLevels), count)
        relaxed       == RelaxLoop(GenerateEntries(priceLevels, count), TRUE, 0,
                                   priceLevels, minSeparation)
    IN  EnsureMarketPrice(relaxed, priceLevels, cd[0], minSeparation)

----------------------------------------------------------------------------
(* calculateVolatility and the search radius *)

RECURSIVE SumArr(_, _)
SumArr(a, k) == IF k >= Len0(a) THEN 0 ELSE a[k] + SumArr(a, k + 1)

RECURSIVE ISqrtBetween(_, _, _)
\* bisection: lo * lo <= x < hi * hi
ISqrtBetween(x, lo, hi) ==
    IF hi - lo <= 1 THEN lo
    ELSE LET mid == (lo + hi) \div 2
         IN  IF mid * mid <= x THEN ISqrtBetween(x, mid, hi)
                               ELSE ISqrtBetween(x, lo, mid)

\* Math.sqrt on a non-negative fixed-point value, rounded down
ISqrt(x) == ISqrtBetween(x, 0, Min(x + 1, 2 ^ 15))

\* volatility in thousandths: standard deviation of the absolute relative
\* changes, clamped to [0.01, 0.5]; 0.05 when there are fewer than 2 closes
\* (the bounded closes are never 0, so no change is skipped)
calculateVolatility(priceHistory) ==
    IF Len0(priceHistory) < 2 THEN 50
    ELSE LET n        == Len0(priceHistory) - 1
             changes  == MkArr(n, LAMBDA k :
                            (Abs(priceHistory[k + 1] - priceHistory[k]) * 1000)
                                \div priceHistory[k])
             mean     == SumArr(changes, 0) \div n
             variance == SumArr(MkArr(n, LAMBDA k :
                            (changes[k] - mean) * (changes[k] - mean)), 0) \div n
         IN  Max(10, Min(500, ISqrt(variance)))

\* Math.max(2, Math.floor(priceLevels.length * volatility * 0.2))
baseSearchRadiusOf(P, volatility) == Max(2, (P * volatility * 2) \div 10000)

----------------------------------------------------------------------------
(* One step of findOptimalPricePath: the cost of a candidate and the scan *)

\* every cost term is multiplied by CostDen(P, D): the comparison of two
\* candidates of one step is then a comparison of integers
CostDen(P, D) == 10 * P * D

\* larger than every cost of the bounded model; stands for Infinity
Infinity == 2 ^ 30

\* Date(timestamps[i] * 1000).getTime()
TimeOf(ts) == ts * 1000

\* Math.max(1, Math.floor(priceLevels.length / (allPaths.length * 3)))
pathRepulsionDistanceOf(P, nPaths) == Max(1, P \div (nPaths * 3))

RECURSIVE FirstAtTime(_, _, _)
\* otherPath.filter(pt => pt.time.getTime() === t)[0]: its position, or -1
FirstAtTime(otherPath, t, k) ==
    IF k >= Len0(otherPath) THEN -1
    ELSE IF otherPath[k].time = t THEN k ELSE FirstAtTime(otherPath, t, k + 1)

\* the prior paths the repulsion loop visits: every p except pathIndex
VisitedPaths(paths, pathIndex) ==
    IF Len0(paths) > 0 /\ pathIndex >= 0
    THEN {p \in DOMAIN paths : p # pathIndex}
    ELSE {}

\* contribution of prior path p to candidate j at time t, times CostDen(P, D)
RepulsionOfPath(otherPath, priceLevels, t, j, D) ==
    LET P == Len0(priceLevels)
        k == FirstAtTime(otherPath, t, 0)
    IN  IF k < 0 THEN 0
        ELSE LET otherPriceIndex == findClosestPriceIndex(priceLevels, otherPath[k].price)
                 distance        == Abs(j - otherPriceIndex)
             IN  IF distance < D
                 THEN 4 * FieldScale * P * (D - distance)   \* ((D-d)/D) * 0.4
                 ELSE 0

RECURSIVE RepulsionMax(_, _, _, _, _, _, _)
\* the largest contribution instead of their sum
RepulsionMax(paths, pathIndex, priceLevels, t, j, D, p) ==
    IF p >= Len0(paths) THEN 0
    ELSE Max(IF p = pathIndex THEN 0
             ELSE RepulsionOfPath(paths[p], priceLevels, t, j, D),
             RepulsionMax(paths, pathIndex, priceLevels, t, j, D, p + 1))

RECURSIVE RepulsionSum(_, _, _, _, _, _, _)
\* for (let p = 0; p < allPaths.length; p++) ... repulsionEffect += ...
RepulsionSum(paths, pathIndex, priceLevels, t, j, D, p) ==
    IF p >= Len0(paths) THEN 0
    ELSE (IF p = pathIndex THEN 0
          ELSE RepulsionOfPath(paths[p], priceLevels, t, j, D))
         + RepulsionSum(paths, pathIndex, priceLevels, t, j, D, p + 1)

repulsionEffect(paths, pathIndex, priceLevels, t, j) ==
    IF Len0(paths) > 0 /\ pathIndex >= 0
    THEN RepulsionSum(paths, pathIndex, priceLevels, t, j,
                      pathRepulsionDistanceOf(Len0(priceLevels), Len0(paths)), 0)
    ELSE 0

\* the D the terms of one step are scaled with
StepD(P, paths, pathIndex) ==
    IF Len0(paths) > 0 /\ pathIndex >= 0
    THEN pathRepulsionDistanceOf(P, Len0(paths)) ELSE 1

\* scalar variant: priceDelta > 0 ? gradientUp * 0.1 : gradientDown * 0.1
gradientEffect(cell, priceDelta) ==
    IF priceDelta > 0 THEN cell.gradientUp ELSE cell.gradientDown

\* opticalResistance + bendPenalty + actualPriceAttraction + repulsionEffect,
\* times CostDen(P, D): the terms every variant shares
costWithoutGradient(field, priceLevels, timestamps, paths, pathIndex, i, j, cur, actualPriceIndex) ==
    LET P == Len0(priceLevels)
        D == StepD(P, paths, pathIndex)
    IN    CostDen(P, D) * field[i][j]
        + (FieldScale \div 20) * CostDen(P, D) * Abs(j - cur)          \* |delta| * 0.05
        + (IF actualPriceIndex >= 0
           THEN 3 * FieldScale * D * Abs(j - actualPriceIndex)         \* 0.3 * |.| / P
           ELSE 0)
        + repulsionEffect(paths, pathIndex, priceLevels, TimeOf(timestamps[i]), j)

\* the gradient term (gradient * 0.1) times CostDen(P, D)
GradientCost(priceLevels, paths, pathIndex, g) ==
    Len0(priceLevels) * StepD(Len0(priceLevels), paths, pathIndex) * g

\* opticalResistance + bendPenalty + actualPriceAttraction + gradientEffect
\*   + repulsionEffect, times CostDen(P, D)
totalResistance(field, priceLevels, timestamps, paths, pathIndex, i, j, cur, actualPriceIndex) ==
      costWithoutGradient(field, priceLevels, timestamps, paths, pathIndex,
                          i, j, cur, actualPriceIndex)
    + GradientCost(priceLevels, paths, pathIndex,
                   gradientEffect(ResistanceCell(field, priceLevels, i, j), j - cur))

\* ">=" for ">": a cell of value 3 is skipped too
ImpassableFromThree(field, i, j) == field[i][j] >= 3 * FieldScale

\* "Skip points with very high resistance": refractiveIndices[i][j] > 3
Impassable(field, i, j) == field[i][j] > 3 * FieldScale

RECURSIVE ScanCandidatesLastTie(_, _, _, _, _, _, _, _, _, _, _, _)
\* the scan with "<=" for "<": among equal costs the last candidate wins
ScanCandidatesLastTie(field, priceLevels, timestamps, paths, pathIndex, i, cur, actualPriceIndex, j, upperBound, minResistance, optimalNextIndex) ==
    IF j > upperBound THEN optimalNextIndex
    ELSE IF Impassable(field, i, j)
         THEN ScanCandidatesLastTie(field, priceLevels, timestamps, paths, pathIndex,
                                    i, cur, actualPriceIndex, j + 1, upperBound,
                                    minResistance, optimalNextIndex)
         ELSE LET tr == totalResistance(field, priceLevels, timestamps, paths,
                                        pathIndex, i, j, cur, actualPriceIndex)
              IN  IF tr <= minResistance
                  THEN ScanCandidatesLastTie(field, priceLevels, timestamps, paths,
                                             pathIndex, i, cur, actualPriceIndex,
                                             j + 1, upperBound, tr, j)
                  ELSE ScanCandidatesLastTie(field, priceLevels, timestamps, paths,
                                             pathIndex, i, cur, actualPriceIndex,
                                             j + 1, upperBound,
                                             minResistance, optimalNextIndex)

RECURSIVE ScanCandidates(_, _, _, _, _, _, _, _, _, _, _, _)
\* for (j = lowerBound; j <= upperBound; j++) with minResistance, optimalNextIndex
ScanCandidates(field, priceLevels, timestamps, paths, pathIndex, i, cur, actualPriceIndex, j, upperBound, minResistance, optimalNextIndex) ==
    IF j > upperBound THEN optimalNextIndex
    ELSE IF Impassable(field, i, j)
         THEN ScanCandidates(field, priceLevels, timestamps, paths, pathIndex,
                             i, cur, actualPriceIndex, j + 1, upperBound,
                             minResistance, optimalNextIndex)
         ELSE LET tr == totalResistance(field, priceLevels, timestamps, paths,
                                        pathIndex, i, j, cur, actualPriceIndex)
              IN  IF tr < minResistance
                  THEN ScanCandidates(field, priceLevels, timestamps, paths, pathIndex,
                                      i, cur, actualPriceIndex, j + 1, upperBound,
                                      tr, j)
                  ELSE ScanCandidates(field, priceLevels, timestamps, paths, pathIndex,
                                      i, cur, actualPriceIndex, j + 1, upperBound,
                                      minResistance, optimalNextIndex)

\* i < candlestickData.length ? findClosestPriceIndex(priceLevels, close) : -1
actualPriceIndexAt(priceLevels, cd, i) ==
    IF i < Len0(cd) THEN findClosestPriceIndex(priceLevels, cd[i]) ELSE -1

\* twice the radius
searchRadiusTwice(base, actualPriceIndex, cur) ==
    2 * (base + (IF actualPriceIndex >= 0 THEN Abs(actualPriceIndex - cur) ELSE 0))

\* baseSearchRadius + (actualPriceIndex >= 0 ? |actualPriceIndex - currentPriceIndex| : 0)
searchRadiusOf(base, actualPriceIndex, cur) ==
    base + (IF actualPriceIndex >= 0 THEN Abs(actualPriceIndex - cur) ELSE 0)

\* one iteration of the time loop: what it reads and the index it chooses
StepOf(field, priceLevels, timestamps, cd, paths, pathIndex, base, i, cur) ==
    LET P                == Len0(priceLevels)
        actualPriceIndex == actualPriceIndexAt(priceLevels, cd, i)
        searchRadius     == searchRadiusOf(base, actualPriceIndex, cur)
        lowerBound       == Max(0, cur - searchRadius)
        upperBound       == Min(P - 1, cur + searchRadius)
    IN  [ i                |-> i,
          from             |-> cur,
          actualPriceIndex |-> actualPriceIndex,
          searchRadius     |-> searchRadius,
          lowerBound       |-> lowerBound,
          upperBound       |-> upperBound,
          readPaths        |-> VisitedPaths(paths, pathIndex),
          chosen           |-> ScanCandidates(field, priceLevels, timestamps, paths,
                                              pathIndex, i, cur, actualPriceIndex,
                                              lowerBound, upperBound, Infinity, cur) ]

PathPoint(field, priceLevels, timestamps, i, index) ==
    [ time       |-> TimeOf(timestamps[i]),
      price      |-> priceLevels[index],
      resistance |-> field[i][index] ]

----------------------------------------------------------------------------
(* calculateOpticalMomentum: exact rationals where the code divides, kinds and
   bounds where it calls Math.cos and Math.exp *)

RECURSIVE GCD(_, _)
GCD(a, b) == IF b = 0 THEN a ELSE GCD(b, a % b)

\* the quotient n / d, d # 0, in lowest terms with a positive denominator
Rat(n, d) ==
    LET g == GCD(Abs(n), Abs(d))
    IN  IF d > 0 THEN << n \div g, d \div g >> ELSE << (0 - n) \div g, (0 - d) \div g >>

\* product of two quotients, cancelling before multiplying
RatMul(a, b) ==
    LET x == Rat(a[1], b[2])
        y == Rat(b[1], a[2])
    IN  << x[1] * y[1], x[2] * y[2] >>

\* (dt || 0.001) hours as milliseconds: a zero delta counts as 0.001 h = 3600 ms
DeltaOrFloor(ms) == IF ms = 0 THEN 3600 ELSE ms

\* dp / ((dt || 0.001) * resistance), dt = ms / (1000 * 3600) hours,
\* resistance in units of 1/FieldScale
Velocity(dp, ms, resistance) ==
    RatMul(RatMul(Rat(dp, 1), Rat(3600000, DeltaOrFloor(ms))),
           Rat(FieldScale, resistance))

\* (v2 - v1) / (dt1 + dt2) and the force made of it: what kind of double it
\* is, and whether it is zero.  x / 0 is an infinity for x # 0 and NaN for 0 / 0.
Force(v1, v2, ms1, ms2) ==
    IF ms1 + ms2 # 0 THEN [ kind |-> "finite", zero |-> (v1 = v2) ]
    ELSE IF v1 = v2 THEN [ kind |-> "nan", zero |-> FALSE ]
         ELSE [ kind |-> "infinite", zero |-> FALSE ]

\* Math.sqrt(dx * dx + dy * dy), kept as its arguments
Hypot(dx, dy) == [ dx |-> dx, dy |-> dy ]

\* Math.atan2(dy, dx) for dx >= 0, kept as its arguments; atan2(0, dx) = 0
Atan2(dy, dx) == IF dy[1] = 0 THEN [ dy |-> << 0, 1 >>, dx |-> 1 ] ELSE [ dy |-> dy, dx |-> dx ]

\* units of the bounds of a confidence score
ScoreUnit == 10000

\* bounds of |cos(previous direction - direction)|, or the constant 0.5
ForceConsistency(i, previous, direction) ==
    IF i > 1
    THEN IF previous = direction THEN [ lo |-> ScoreUnit, hi |-> ScoreUnit ]
         ELSE [ lo |-> 0, hi |-> ScoreUnit ]
    ELSE [ lo |-> ScoreUnit \div 2, hi |-> ScoreUnit \div 2 ]

\* bounds of 1 / resistance
SpeedFactor(resistance) ==
    [ lo |-> (ScoreUnit * FieldScale) \div resistance,
      hi |-> (ScoreUnit * FieldScale + resistance - 1) \div resistance ]

\* bounds of Math.exp(-Math.abs(force) * 2): 1 for no force, 0 for an infinite one
GradientStability(force) ==
    IF force.kind = "infinite" THEN [ lo |-> 0, hi |-> 0 ]
    ELSE IF force.zero THEN [ lo |-> ScoreUnit, hi |-> ScoreUnit ]
         ELSE [ lo |-> 0, hi |-> ScoreUnit ]

\* 0.3 + 0.7 * (forceConsistency * 0.4 + speedFactor * 0.3 + gradientStability * 0.3)
Confidence(fc, sf, gs, force) ==
    [ kind |-> IF force.kind = "nan" THEN "nan" ELSE "finite",
      lo   |-> (3 * ScoreUnit) \div 10 + (7 * (4 * fc.lo + 3 * sf.lo + 3 * gs.lo)) \div 100,
      hi   |-> (3 * ScoreUnit) \div 10 + (7 * (4 * fc.hi + 3 * sf.hi + 3 * gs.hi) + 99) \div 100 ]

\* the literal 0.5
HalfScore == [ kind |-> "finite", lo |-> ScoreUnit \div 2, hi |-> ScoreUnit \div 2 ]

\* "Initialize with zero momentum"
ZeroVector(point) ==
    [ x |-> point.time, y |-> point.price, dx |-> 0, dy |-> << 0, 1 >>,
      magnitude |-> Hypot(0, << 0, 1 >>), direction |-> Atan2(<< 0, 1 >>, 1) ]

\* the loop body for interior point i: the vector pushed and its confidence
MomentumAt(pth, i, vectors) ==
    LET ms1 == pth[i].time - pth[i - 1].time
        ms2 == pth[i + 1].time - pth[i].time
        dp1 == pth[i].price - pth[i - 1].price
        dp2 == pth[i + 1].price - pth[i].price
        dx  == 1
        Scored(vector) ==
            [ vector     |-> vector,
              confidence |-> Confidence(ForceConsistency(i, vectors[i - 1].direction,
                                                         vector.direction),
                                        SpeedFactor(pth[i].resistance),
                                        GradientStability(vector.force), vector.force) ]
        Vector(force, dy) ==
            [ x |-> pth[i].time, y |-> pth[i].price, dx |-> dx, dy |-> dy,
              magnitude |-> Hypot(dx, dy), direction |-> Atan2(dy, dx), force |-> force ]
        Between(v1, v2) == Scored(Vector(Force(v1, v2, ms1, ms2), RatMul(v2, << 20, 1 >>)))
    IN  Between(Velocity(dp1, ms1, pth[i - 1].resistance),
                Velocity(dp2, ms2, pth[i].resistance))

\* the first vector instead of the last one
LastVectorFirst(vectors) == vectors[0]

\* momentumVectors[momentumVectors.length - 1]
LastVectorOf(vectors) == vectors[Len0(vectors) - 1]

\* "Add final point with forward projection": the vector pushed last
FinalVector(pth, vectors) ==
    LET lastVector == LastVectorOf(vectors)
    IN  [ x |-> pth[Len0(pth) - 1].time, y |-> pth[Len0(pth) - 1].price,
          dx |-> lastVector.dx, dy |-> lastVector.dy,
          magnitude |-> lastVector.magnitude, direction |-> lastVector.direction ]

\* confidenceScores[confidenceScores.length - 1] || 0.5: NaN is falsy
FinalConfidence(scores) ==
    LET last == scores[Len0(scores) - 1]
    IN  IF last.kind = "nan" THEN HalfScore ELSE last

RECURSIVE MomentumLoop(_, _, _, _)
\* for (let i = 1; i < path.length - 1; i++)
MomentumLoop(pth, i, vectors, scores) ==
    LET Pushed(m) == MomentumLoop(pth, i + 1, Push(vectors, m.vector),
                                  Push(scores, m.confidence))
    IN  IF i >= Len0(pth) - 1
        THEN [ momentumVectors |-> vectors, confidenceScores |-> scores ]
        ELSE Pushed(MomentumAt(pth, i, vectors))

calculateOpticalMomentum(optimalPath) ==
    LET Closed(r) ==
            IF Len0(r.momentumVectors) > 1
            THEN [ momentumVectors  |-> Push(r.momentumVectors,
                                             FinalVector(optimalPath, r.momentumVectors)),
                   confidenceScores |-> Push(r.confidenceScores,
                                             FinalConfidence(r.confidenceScores)) ]
            ELSE r
    IN  IF Len0(optimalPath) < 3
        THEN [ momentumVectors |-> EmptyArr, confidenceScores |-> EmptyArr ]
        ELSE Closed(MomentumLoop(optimalPath, 1,
                                 Push(EmptyArr, ZeroVector(optimalPath[0])), EmptyArr))

----------------------------------------------------------------------------
(* Bounded inputs *)

MaxPaths  == 3
NumLevels == 6
MaxT      == 3

UniformGrid(n) == MkArr(n, LAMBDA k : 100 + 10 * k)

\* levels bunched at the low end, the last one far away
SkewGrid(n) == MkArr(n, LAMBDA k : IF k = n - 1 THEN 100 + 100 * n ELSE 100 + k)

Grids == { UniformGrid(1), UniformGrid(NumLevels), SkewGrid(NumLevels) }

\* signed volumes with a ridge of liquidity at level k
RidgeRow(P, k) ==
    MkArr(P, LAMBDA j : IF j = k THEN 2 ELSE IF Abs(j - k) = 1 THEN -1 ELSE 0)

ZeroRow(P) == MkArr(P, LAMBDA j : 0)

\* kind "zero": no liquidity anywhere; kind "ridge": a ridge starting at k0
\* that moves by drift levels per timestamp
HeatmapOf(P, T, h) ==
    MkArr(T, LAMBDA t :
        IF h.kind = "zero" THEN ZeroRow(P)
        ELSE RidgeRow(P, ClampIndex(P, h.k0 + h.drift * t)))

HeatParams(P) ==
    { [kind |-> "zero", k0 |-> 0, drift |-> 0] }
    \cup { [kind |-> "ridge", k0 |-> k, drift |-> d] :
              k \in {0, P \div 2}, d \in {0, 1} }

Timestamps(T) == MkArr(T, LAMBDA t : 3600 * (t + 1))

HeatmapDataOf(grid, T, h) ==
    [ timestamps  |-> Timestamps(T),
      priceLevels |-> grid,
      heatmap     |-> HeatmapOf(Len0(grid), T, h) ]

\* closes that start at level c0 (4 above it) and move by cd levels per candle
CandlesOf(grid, C, c0, cd) ==
    MkArr(C, LAMBDA t : grid[ClampIndex(Len0(grid), c0 + cd * t)] + 4)

CandleSeries(grid) ==
    { CandlesOf(grid, C, c0, cd) :
         C \in 0..MaxT, c0 \in {0, Len0(grid) - 1}, cd \in {0, -1} }

\* the candlestick test alone
NoCandles(hd, cd) == Len0(cd) = 0

\* !heatmapData.heatmap.length || !candlestickData.length
InputsEmpty(hd, cd) == Len0(hd.heatmap) = 0 \/ Len0(cd) = 0

EmptyResult ==
    [ timestamps |-> EmptyArr, actualPrice |-> EmptyArr, predictedPaths |-> EmptyArr,
      refractiveIndices |-> EmptyArr, resistanceMap |-> EmptyArr,
      momentumVectorsCollection |-> EmptyArr, confidenceScoresCollection |-> EmptyArr ]

NoStep == [ i |-> -1, from |-> -1, actualPriceIndex |-> -1, searchRadius |-> 0,
            lowerBound |-> 0, upperBound |-> -1, readPaths |-> {}, chosen |-> -1 ]

NoEntry == [ price |-> << 0, 1 >>, index |-> 0, timeIndex |-> 0 ]

----------------------------------------------------------------------------
(* The p5 variant: calculatePricePredictionP5 and its callees *)

\* no relaxation: the evenly spaced entries, then the market-price check
determineEntryPointsP5(hd, cd, count) ==
    LET priceLevels == hd.priceLevels
    IN  EnsureMarketPrice(GenerateEntries(priceLevels, count), priceLevels, cd[0],
                          minSeparationOf(Len0(priceLevels), count))

\* gradientUp for a move up, gradientDown for a move down, nothing for no move
gradientEffectP5(cell, priceDelta) ==
    IF priceDelta > 0 THEN cell.gradientUp
    ELSE IF priceDelta < 0 THEN cell.gradientDown ELSE 0

\* the resistances array of one step: Infinity where the option is skipped
\* (the rounding of the Float32Array is not modelled)
resistancesP5(field, priceLevels, timestamps, paths, pathIndex, i, cur, actualPriceIndex, lowerBound, rangeSize) ==
    MkArr(rangeSize, LAMBDA optIdx :
        LET j == lowerBound + optIdx
        IN  IF field[i][j] > 3 * FieldScale THEN Infinity
            ELSE   costWithoutGradient(field, priceLevels, timestamps, paths, pathIndex,
                                       i, j, cur, actualPriceIndex)
                 + GradientCost(priceLevels, paths, pathIndex,
                       gradientEffectP5(ResistanceCell(field, priceLevels, i, j), j - cur)))

RECURSIVE MinIndexFrom(_, _, _, _)
\* for (k = 0; k < rangeSize; k++) if (resistances[k] < minResistance) ...
MinIndexFrom(resistances, k, minResistance, minIndex) ==
    IF k >= Len0(resistances) THEN minIndex
    ELSE IF resistances[k] < minResistance
         THEN MinIndexFrom(resistances, k + 1, resistances[k], k)
         ELSE MinIndexFrom(resistances, k + 1, minResistance, minIndex)

\* one iteration of the time loop of findOptimalPricePathP5: the next index
NextIndexP5(field, priceLevels, timestamps, cd, paths, pathIndex, base, i, cur) ==
    LET actualPriceIndex == actualPriceIndexAt(priceLevels, cd, i)
        searchRadius     == searchRadiusOf(base, actualPriceIndex, cur)
        lowerBound       == Max(0, cur - searchRadius)
        upperBound       == Min(Len0(priceLevels) - 1, cur + searchRadius)
        resistances      == resistancesP5(field, priceLevels, timestamps, paths,
                                          pathIndex, i, cur, actualPriceIndex,
                                          lowerBound, upperBound - lowerBound + 1)
        minIndex         == MinIndexFrom(resistances, 0, Infinity, 0)
    IN  IF resistances[minIndex] < Infinity THEN lowerBound + minIndex ELSE cur

RECURSIVE WalkP5(_, _, _, _, _, _, _, _, _)
WalkP5(field, hd, cd, paths, pathIndex, base, i, cur, acc) ==
    IF i >= Len0(hd.timestamps) THEN acc
    ELSE LET nxt == NextIndexP5(field, hd.priceLevels, hd.timestamps, cd, paths,
                                pathIndex, base, i, cur)
         IN  WalkP5(field, hd, cd, paths, pathIndex, base, i + 1, nxt,
                    Push(acc, PathPoint(field, hd.priceLevels, hd.timestamps, i, nxt)))

findOptimalPricePathP5(field, hd, cd, entryPoint, paths, pathIndex) ==
    IF Len0(hd.timestamps) < 2 \/ Len0(cd) < 2 THEN EmptyArr
    ELSE WalkP5(field, hd, cd, paths, pathIndex,
                baseSearchRadiusOf(Len0(hd.priceLevels), calculateVolatility(cd)),
                entryPoint.timeIndex + 1, entryPoint.index,
                (0 :> PathPoint(field, hd.priceLevels, hd.timestamps,
                                entryPoint.timeIndex, entryPoint.index)))

RECURSIVE PathsP5(_, _, _, _, _, _)
\* entryPoints.forEach: path index by index, each seeing the ones before it
PathsP5(field, hd, cd, eps, index, paths) ==
    IF index >= Len0(eps) THEN paths
    ELSE PathsP5(field, hd, cd, eps, index + 1,
                 Push(paths, findOptimalPricePathP5(field, hd, cd, eps[index],
                                                    paths, index)))

calculatePricePredictionP5(hd, cd, count) ==
    LET field == calculateRefractiveIndices(hd)
        Predicted(paths, predictions) ==
            [ timestamps        |-> MkArr(Len0(hd.timestamps),
                                         LAMBDA t : TimeOf(hd.timestamps[t])),
              actualPrice       |-> cd,
              predictedPaths    |-> paths,
              refractiveIndices |-> field,
              resistanceMap     |-> precomputeResistanceMap(field, hd.priceLevels),
              momentumVectorsCollection  |-> MkArr(Len0(paths), LAMBDA k :
                   predictions[k].momentumVectors),
              confidenceScoresCollection |-> MkArr(Len0(paths), LAMBDA k :
                   predictions[k].confidenceScores) ]
        WithMomentum(paths) ==
            Predicted(paths, MkArr(Len0(paths), LAMBDA k :
                                   calculateOpticalMomentum(paths[k])))
    IN  IF InputsEmpty(hd, cd) THEN EmptyResult
        ELSE WithMomentum(PathsP5(field, hd, cd, determineEntryPointsP5(hd, cd, count),
                                  0, EmptyArr))

----------------------------------------------------------------------------
(* The tensor variant: the callees of calculatePricePredictionTensor *)

\* 1 + exp(-5 * v / (max + 0.0001)) * 2 in units of 1/FieldScale, for the
\* volumes of the bounded heatmaps (0, max/2, max with max = 2):
\* 1.1641905 and 1.0134793
RefractiveIndexTensorOf(num, den) ==
    CASE num = 0       -> FieldScale + 2 * FieldScale
      [] 2 * num = den -> FieldScale + 16419
      [] num = den     -> FieldScale + 1348

batchCalculateRefractiveIndicesTensor(hd) ==
    MkArr(Len0(hd.heatmap), LAMBDA i :
        LET volumes   == hd.heatmap[i]
            maxVolume == MaxAbsFrom(volumes, 0)
        IN  MkArr(Len0(volumes), LAMBDA j :
                RefractiveIndexTensorOf(Abs(volumes[j]),
                                        IF maxVolume = 0 THEN 1 ELSE maxVolume)))

\* gradientsDown = (field[j+1] - field[j]) padded with 0 at the end,
\* gradientsUp = (field[j-1] - field[j]) padded with 0 at the beginning
TensorCell(field, priceLevels, i, j) ==
    [ price        |-> priceLevels[j],
      resistance   |-> field[i][j],
      gradientUp   |-> IF j > 0 THEN field[i][j - 1] - field[i][j] ELSE 0,
      gradientDown |-> IF j < Len0(field[i]) - 1
                       THEN field[i][j + 1] - field[i][j] ELSE 0 ]

optimizedResistanceMapComputation(field, priceLevels) ==
    MkArr(Len0(field), LAMBDA i :
        MkArr(Len0(field[i]), LAMBDA j : TensorCell(field, priceLevels, i, j)))

\* precomputeResistanceMapTensor (the worker's map builder):
\* gradientsDown = 0 followed by (field[j] - field[j-1]),
\* gradientsUp = (field[j] - field[j+1]) followed by 0
WorkerCell(field, priceLevels, i, j) ==
    [ price        |-> priceLevels[j],
      resistance   |-> field[i][j],
      gradientUp   |-> IF j < Len0(field[i]) - 1
                       THEN field[i][j] - field[i][j + 1] ELSE 0,
      gradientDown |-> IF j > 0 THEN field[i][j] - field[i][j - 1] ELSE 0 ]

precomputeResistanceMapTensor(field, priceLevels) ==
    MkArr(Len0(field), LAMBDA i :
        MkArr(Len0(priceLevels), LAMBDA j : WorkerCell(field, priceLevels, i, j)))

\* entries spread around the level nearest to the last close
batchGenerateEntryPoints(hd, cd, count) ==
    LET pricesArray      == hd.priceLevels
        lastPrice        == cd[Len0(cd) - 1]
        centerPriceIndex == findClosestPriceIndex(pricesArray, lastPrice)
        spread           == Len0(pricesArray) \div 5
        den              == IF count - 1 = 0 THEN 1 ELSE count - 1
    IN  MkArr(count, LAMBDA i :
            LET \* Math.floor(centerPriceIndex + offset), offset = -spread + i * step
                floored    == IF count = 1 THEN centerPriceIndex
                              ELSE centerPriceIndex - spread + (i * spread * 2) \div den
                priceIndex == ClampIndex(Len0(pricesArray), floored)
            IN  [ timeIndex  |-> 0,
                  priceIndex |-> priceIndex,
                  time       |-> TimeOf(hd.timestamps[0]),
                  price      |-> pricesArray[priceIndex],
                  resistance |-> FieldScale ])

gradientEffectTensor(cell, j, cur) ==
    IF j > cur THEN cell.gradientUp
    ELSE IF j < cur THEN cell.gradientDown ELSE 0

\* totalResistance of candidate j, times CostDen(P, D); no candidate is skipped
totalResistanceTensor(field, priceLevels, timestamps, paths, pathIndex, i, j, cur, actualPriceIndex) ==
      costWithoutGradient(field, priceLevels, timestamps, paths, pathIndex,
                          i, j, cur, actualPriceIndex)
    + GradientCost(priceLevels, paths, pathIndex,
                   gradientEffectTensor(TensorCell(field, priceLevels, i, j), j, cur))

\* argMin over lowerBound..upperBound (first smallest), then
\* resultIndex || currentPriceIndex
findMinimumResistanceTensor(field, priceLevels, timestamps, paths, pathIndex, i, cur, actualPriceIndex, lowerBound, upperBound) ==
    IF upperBound < lowerBound THEN cur
    ELSE LET total == MkArr(upperBound - lowerBound + 1, LAMBDA k :
                         totalResistanceTensor(field, priceLevels, timestamps, paths,
                                               pathIndex, i, lowerBound + k, cur,
                                               actualPriceIndex))
             minIndex    == MinIndexFrom(total, 1, total[0], 0)
             resultIndex == lowerBound + minIndex
         IN  IF resultIndex = 0 THEN cur ELSE resultIndex

RECURSIVE WalkTensor(_, _, _, _, _, _, _, _, _)
WalkTensor(field, hd, cd, paths, pathIndex, base, timeIndex, cur, acc) ==
    IF timeIndex >= Len0(hd.timestamps) THEN acc
    ELSE LET actualPriceIndex == actualPriceIndexAt(hd.priceLevels, cd, timeIndex)
             searchRadius     == searchRadiusOf(base, actualPriceIndex, cur)
             nxt == findMinimumResistanceTensor(field, hd.priceLevels, hd.timestamps,
                        paths, pathIndex, timeIndex, cur, actualPriceIndex,
                        Max(0, cur - searchRadius),
                        Min(Len0(hd.priceLevels) - 1, cur + searchRadius))
         IN  WalkTensor(field, hd, cd, paths, pathIndex, base, timeIndex + 1, nxt,
                        Push(acc, [ timeIndex  |-> timeIndex,
                                    priceIndex |-> nxt,
                                    time       |-> TimeOf(hd.timestamps[timeIndex]),
                                    price      |-> hd.priceLevels[nxt],
                                    resistance |-> field[timeIndex][nxt] ]))

findOptimalPricePathTensor(field, hd, cd, entryPoint, paths, pathIndex) ==
    IF Len0(hd.timestamps) < 2 \/ Len0(cd) < 2 THEN (0 :> entryPoint)
    ELSE WalkTensor(field, hd, cd, paths, pathIndex,
                    baseSearchRadiusOf(Len0(hd.priceLevels), calculateVolatility(cd)),
                    1, entryPoint.priceIndex, (0 :> entryPoint))

----------------------------------------------------------------------------
(* The prediction run: calculatePricePrediction *)

T_ == Len0(heatmapData.timestamps)

P_ == Len0(heatmapData.priceLevels)

FrameIdle ==
    /\ fEntryPoint = NoEntry /\ fAllPaths = EmptyArr /\ fPathIndex = -1
    /\ path = EmptyArr /\ currentPriceIndex = -1 /\ fTime = 0
    /\ baseSearchRadius = 0 /\ resistanceMap = EmptyArr /\ lastStep = NoStep

\* the tensor backend is not in use
TfIdle == tensorEnabled = FALSE /\ tfRoute = "none"

\* no step-by-step run of determineEntryPoints
EntIdle ==
    /\ entFn = "none" /\ entHasAdjusted = TRUE /\ entIteration = 0
    /\ marketChecked = "none"

EmptyOBM ==
    [ timestamps |-> EmptyArr, obmValues |-> EmptyArr, trendStrength |-> EmptyArr,
      forecastValues |-> EmptyArr, signals |-> EmptyArr, signalStrengths |-> EmptyArr ]

\* calculateOBM is not running
ObmIdle ==
    /\ obmResult = EmptyOBM /\ obmI = 0
    /\ smoothed = [obm |-> 0, obmPrev |-> 0, obmPrev2 |-> 0]
    /\ trendNow = 0
    /\ divNow = [bullish |-> FALSE, bearish |-> FALSE]
    /\ inLongPosition = FALSE /\ inShortPosition = FALSE /\ lastSignalIndex = -10
    /\ buyCross = {}

\* the page as its script leaves it before any loadData call (app.js:4-7)
LoadIdle ==
    /\ lastFetchTime = 0
    /\ cachedCandlestickData = 0 /\ cachedHeatmapData = 0
    /\ chart = [shows |-> "nothing", candlestick |-> 0, heatmap |-> 0]
    /\ requests = EmptyArr

\* calculateOpticalMomentum is not running step by step
MomIdle == momentumVectors = EmptyArr /\ confidenceScores = EmptyArr /\ momI = 0

Init ==
    /\ pathCount \in 1..MaxPaths
    /\ \E grid \in Grids : \E T \in 0..MaxT : \E h \in HeatParams(Len0(grid)) :
          /\ heatmapData = HeatmapDataOf(grid, T, h)
          /\ candlestickData \in CandleSeries(grid)
    /\ pc = "start"
    /\ refractiveIndices = EmptyArr /\ entryPoints = EmptyArr
    /\ allPaths = EmptyArr /\ loopI = 0 /\ result = EmptyResult
    /\ FrameIdle /\ TfIdle /\ EntIdle /\ ObmIdle /\ MomIdle /\ LoadIdle

frameVars == << fEntryPoint, fAllPaths, fPathIndex, path, currentPriceIndex,
                fTime, baseSearchRadius, resistanceMap, lastStep >>

inputVars == << heatmapData, candlestickData, pathCount >>

\* lines 4-26: the guard, the field, the entry points
Predict ==
    /\ pc = "start"
    /\ \/ /\ InputsEmpty(heatmapData, candlestickData)
          /\ pc' = "done"
          /\ UNCHANGED << refractiveIndices, entryPoints >>
       \/ /\ ~InputsEmpty(heatmapData, candlestickData)
          /\ refractiveIndices' = calculateRefractiveIndices(heatmapData)
          /\ entryPoints' = determineEntryPoints(heatmapData, candlestickData, pathCount)
          /\ pc' = "loop"
    /\ UNCHANGED << inputVars, allPaths, loopI, result, frameVars >>
    /\ UNCHANGED << tfVars, entVars, obmVars, momVars, loadVars, buyCross >>

\* findOptimalPricePath lines 190-248: the guard, the radius, the first point
EnterFind(entryPoint, paths, pathIndex) ==
    /\ fEntryPoint' = entryPoint
    /\ fAllPaths' = paths
    /\ fPathIndex' = pathIndex
    /\ lastStep' = NoStep
    /\ IF T_ < 2 \/ Len0(candlestickData) < 2
       THEN /\ path' = EmptyArr
            /\ resistanceMap' = EmptyArr
            /\ pc' = "return"
            /\ UNCHANGED << currentPriceIndex, fTime, baseSearchRadius >>
       ELSE /\ baseSearchRadius' =
                 baseSearchRadiusOf(P_, calculateVolatility(candlestickData))
            /\ currentPriceIndex' = entryPoint.index
            /\ path' = << >> @@ (0 :> PathPoint(refractiveIndices, heatmapData.priceLevels,
                                    heatmapData.timestamps, entryPoint.timeIndex,
                                    entryPoint.index))
            /\ resistanceMap' =
                 precomputeResistanceMap(refractiveIndices, heatmapData.priceLevels)
            /\ fTime' = entryPoint.timeIndex + 1
            /\ pc' = "find"

\* lines 29-40: the loop head and the call
CallFind ==
    /\ pc = "loop"
    /\ loopI < Len0(entryPoints)
    /\ EnterFind(entryPoints[loopI], allPaths, loopI)
    /\ UNCHANGED << inputVars, refractiveIndices, entryPoints, allPaths, loopI, result >>
    /\ UNCHANGED << tfVars, entVars, obmVars, momVars, loadVars, buyCross >>

\* lines 251-347: one iteration of the time loop
FindStep ==
    /\ pc = "find"
    /\ fTime < T_
    /\ LET st == StepOf(refractiveIndices, heatmapData.priceLevels,
                        heatmapData.timestamps, candlestickData,
                        fAllPaths, fPathIndex, baseSearchRadius,
                        fTime, currentPriceIndex)
       IN  /\ lastStep' = st
           /\ currentPriceIndex' = st.chosen
           /\ path' = Push(path, PathPoint(refractiveIndices, heatmapData.priceLevels,
                                           heatmapData.timestamps, fTime, st.chosen))
    /\ fTime' = fTime + 1
    /\ UNCHANGED << inputVars, pc, refractiveIndices, entryPoints, allPaths, loopI,
                    result, fEntryPoint, fAllPaths, fPathIndex, baseSearchRadius,
                    resistanceMap >>
    /\ UNCHANGED << tfVars, entVars, obmVars, momVars, loadVars, buyCross >>

\* the time loop left one timestamp early (i < timestamps.length - 1)
FindReturnEarly ==
    /\ pc = "find"
    /\ fTime >= T_ - 1
    /\ pc' = "return"
    /\ UNCHANGED << inputVars, refractiveIndices, entryPoints, allPaths, loopI,
                    result, frameVars >>
    /\ UNCHANGED << tfVars, entVars, obmVars, momVars, loadVars, buyCross >>

\* line 349
FindReturn ==
    /\ pc = "find"
    /\ fTime >= T_
    /\ pc' = "return"
    /\ UNCHANGED << inputVars, refractiveIndices, entryPoints, allPaths, loopI,
                    result, frameVars >>
    /\ UNCHANGED << tfVars, entVars, obmVars, momVars, loadVars, buyCross >>

\* a finished path stored at the front of the list instead of its end
StorePathFront(paths, p) ==
    [k \in 0..Len0(paths) |-> IF k = 0 THEN p ELSE paths[k - 1]]

\* where a finished path is stored (allPaths.push, result.predictedPaths.push)
StorePath(paths, p) == Push(paths, p)

\* lines 43-54: store the path and what is derived from it
PushPath ==
    /\ pc = "return"
    /\ LET prediction == calculateOpticalMomentum(path)
       IN  /\ allPaths' = StorePath(allPaths, path)
           /\ result' = [result EXCEPT
                 !.predictedPaths = StorePath(@, path),
                 !.resistanceMap = resistanceMap,
                 !.momentumVectorsCollection = Push(@, prediction.momentumVectors),
                 !.confidenceScoresCollection = Push(@, prediction.confidenceScores)]
    /\ loopI' = loopI + 1
    /\ pc' = "loop"
    /\ UNCHANGED << inputVars, refractiveIndices, entryPoints, frameVars >>
    /\ UNCHANGED << tfVars, entVars, obmVars, momVars, loadVars, buyCross >>

\* lines 57-63
Finish ==
    /\ pc = "loop"
    /\ loopI >= Len0(entryPoints)
    /\ result' = [result EXCEPT
          !.timestamps = MkArr(T_, LAMBDA t : TimeOf(heatmapData.timestamps[t])),
          !.actualPrice = candlestickData,
          !.refractiveIndices = refractiveIndices]
    /\ pc' = "done"
    /\ UNCHANGED << inputVars, refractiveIndices, entryPoints, allPaths, loopI,
                    frameVars >>
    /\ UNCHANGED << tfVars, entVars, obmVars, momVars, loadVars, buyCross >>

Next == Predict \/ CallFind \/ FindStep \/ FindReturn \/ PushPath \/ Finish

Spec == Init /\ [][Next]_vars

----------------------------------------------------------------------------
(* calculatePricePredictionTensor: initialisation, the try block, the catch *)

InitTensor ==
    /\ pathCount \in 1..MaxPaths
    /\ \E grid \in Grids : \E T \in 0..MaxT : \E h \in HeatParams(Len0(grid)) :
          /\ heatmapData = HeatmapDataOf(grid, T, h)
          /\ candlestickData \in CandleSeries(grid)
    /\ pc = "tStart"
    /\ tensorEnabled \in BOOLEAN
    /\ tfRoute = "none"
    /\ refractiveIndices = EmptyArr /\ entryPoints = EmptyArr
    /\ allPaths = EmptyArr /\ loopI = 0 /\ result = EmptyResult
    /\ FrameIdle /\ EntIdle /\ ObmIdle /\ MomIdle /\ LoadIdle

\* lines 119-125: initTensorFlow succeeds, or fails and the p5 result is returned
TensorInit ==
    /\ pc = "tStart"
    /\ \/ /\ tensorEnabled
          /\ pc' = "tGuard"
          /\ UNCHANGED << tensorEnabled, tfRoute, result >>
       \/ /\ ~tensorEnabled
          /\ tensorEnabled' = TRUE
          /\ pc' = "tGuard"
          /\ UNCHANGED << tfRoute, result >>
       \/ /\ ~tensorEnabled
          /\ result' = calculatePricePredictionP5(heatmapData, candlestickData, pathCount)
          /\ tfRoute' = "initFailed"
          /\ pc' = "done"
          /\ UNCHANGED tensorEnabled
    /\ UNCHANGED << inputVars, refractiveIndices, entryPoints, allPaths, loopI,
                    frameVars, entVars, obmVars, momVars, loadVars, buyCross >>

\* lines 131-147: the empty result, or into the try block
TensorGuard ==
    /\ pc = "tGuard"
    /\ \/ /\ (Len0(heatmapData.heatmap) = 0 \/ Len0(candlestickData) = 0)
          /\ tfRoute' = "tensor"
          /\ pc' = "done"
       \/ /\ ~(Len0(heatmapData.heatmap) = 0 \/ Len0(candlestickData) = 0)
          /\ tfRoute' = "try"
          /\ pc' = "tField"
    /\ UNCHANGED << inputVars, refractiveIndices, entryPoints, allPaths, loopI, result,
                    frameVars, tensorEnabled, entVars, obmVars, momVars, loadVars, buyCross >>

\* lines 150-170: the field, the resistance map, the entry points
TensorField ==
    /\ pc = "tField"
    /\ refractiveIndices' = batchCalculateRefractiveIndicesTensor(heatmapData)
    /\ resistanceMap' = optimizedResistanceMapComputation(refractiveIndices',
                                                          heatmapData.priceLevels)
    /\ entryPoints' = batchGenerateEntryPoints(heatmapData, candlestickData, pathCount)
    /\ pc' = "tLoop"
    /\ UNCHANGED << inputVars, allPaths, loopI, result, fEntryPoint, fAllPaths,
                    fPathIndex, path, currentPriceIndex, fTime, baseSearchRadius,
                    lastStep, tfVars, entVars, obmVars, momVars, loadVars, buyCross >>

\* lines 172-196: one iteration of the path loop
TensorPath ==
    /\ pc = "tLoop"
    /\ loopI < Len0(entryPoints)
    /\ allPaths' = Push(allPaths,
            findOptimalPricePathTensor(refractiveIndices, heatmapData, candlestickData,
                                       entryPoints[loopI], allPaths, loopI))
    /\ loopI' = loopI + 1
    /\ UNCHANGED << inputVars, pc, refractiveIndices, entryPoints, result, frameVars,
                    tfVars, entVars, obmVars, momVars, loadVars, buyCross >>

\* lines 199-216: the result is filled and returned
TensorFinish ==
    /\ pc = "tLoop"
    /\ loopI >= Len0(entryPoints)
    /\ LET predictions == MkArr(Len0(allPaths), LAMBDA k :
                              calculateOpticalMomentum(allPaths[k]))
       IN  result' = [ timestamps        |-> MkArr(T_, LAMBDA t :
                                                TimeOf(heatmapData.timestamps[t])),
                       actualPrice       |-> candlestickData,
                       predictedPaths    |-> allPaths,
                       refractiveIndices |-> refractiveIndices,
                       resistanceMap     |-> resistanceMap,
                       momentumVectorsCollection  |-> MkArr(Len0(allPaths), LAMBDA k :
                            predictions[k].momentumVectors),
                       confidenceScoresCollection |-> MkArr(Len0(allPaths), LAMBDA k :
                            predictions[k].confidenceScores) ]
    /\ tfRoute' = "tensor"
    /\ pc' = "done"
    /\ UNCHANGED << inputVars, refractiveIndices, entryPoints, allPaths, loopI,
                    frameVars, tensorEnabled, entVars, obmVars, momVars, loadVars, buyCross >>

\* any statement of the try block throws
TensorThrow ==
    /\ pc \in {"tField", "tLoop"}
    /\ pc' = "tCatch"
    /\ UNCHANGED << inputVars, refractiveIndices, entryPoints, allPaths, loopI, result,
                    frameVars, tfVars, entVars, obmVars, momVars, loadVars, buyCross >>

\* the error leaves the function instead of being handled
TensorCatchRethrow ==
    /\ pc = "tCatch"
    /\ pc' = "rejected"
    /\ UNCHANGED << inputVars, refractiveIndices, entryPoints, allPaths, loopI, result,
                    frameVars, tfVars, entVars, obmVars, momVars, loadVars, buyCross >>

\* lines 217-226: the catch block
TensorCatch ==
    /\ pc = "tCatch"
    /\ result' = calculatePricePredictionP5(heatmapData, candlestickData, pathCount)
    /\ tfRoute' = "caught"
    /\ pc' = "done"
    /\ UNCHANGED << inputVars, refractiveIndices, entryPoints, allPaths, loopI,
                    frameVars, tensorEnabled, entVars, obmVars, momVars, loadVars, buyCross >>

NextTensor ==
    \/ TensorInit \/ TensorGuard \/ TensorField \/ TensorPath \/ TensorFinish
    \/ TensorThrow \/ TensorCatch

SpecTensor == InitTensor /\ [][NextTensor]_vars

----------------------------------------------------------------------------
(* calculateOBM: the series and the signal loop                              *)
(* The numeric stages (imbalance, EMA, regression, smoothing, divergences)   *)
(* are not computed: the loop reads smoothedOBM[i], trendStrength[i] and the *)
(* divergence lists, and each iteration draws the values it reads.  The      *)
(* smoothed OBM is in units of 1/20, the trend in units of 1/100.            *)

MaxRows == 13

ObmValues == {-12, 0, 8}

TrendValues == {-4, 0, 15}

forecastLag == 3

signalCooldown == 5

lookbackWindow == 10

\* Math.min(10, Math.floor(rawOBMValues.length / 3))
windowSizeOf(n) == Min(10, n \div 3)

\* "< 9" for "< 10": nine rows are analysed
TooFewRowsNine(hd) == Len0(hd.heatmap) < 9

\* heatmapData.heatmap.length < 10
TooFewRows(hd) == Len0(hd.heatmap) < 10

\* "<=" for "<": one more null
IsForecastNullLate(i) == i <= forecastLag

\* forecastValues.push(null) for i < forecastLag
IsForecastNull(i) == i < forecastLag

\* lines 54-172: what the series stages leave in the result for T rows
SeriesOf(hd) ==
    LET n == Len0(hd.heatmap) - 1
    IN  [ timestamps      |-> MkArr(n, LAMBDA k : TimeOf(hd.timestamps[k + 1])),
          obmValues       |-> MkArr(n, LAMBDA k : "number"),
          trendStrength   |-> MkArr(n, LAMBDA k : "number"),
          forecastValues  |-> MkArr(n, LAMBDA k :
                                 IF IsForecastNull(k) THEN "null" ELSE "number"),
          signals         |-> EmptyArr,
          signalStrengths |-> EmptyArr ]

\* findDivergences can list i as bullish only for lookbackWindow <= i < n - 1
\* with momentum[i] < 0, as bearish only with momentum[i] > 0
BullishChoices(i, n, obm) ==
    IF lookbackWindow <= i /\ i < n - 1 /\ obm < 0 THEN BOOLEAN ELSE {FALSE}

BearishChoices(i, n, obm) ==
    IF lookbackWindow <= i /\ i < n - 1 /\ obm > 0 THEN BOOLEAN ELSE {FALSE}

\* Math.min(100, Math.round((factor + trendFactor + momentumFactor) * k)),
\* factor in tenths
signalStrengthOf(factor10, k, trend, obm) ==
    Min(100, ((factor10 + Min(10, Abs(trend)) + Min(10, Abs(obm))) * k + 5) \div 10)

\* the reversal branch left out
strengthWithoutReversal(divergence, reversal, trend, obm) ==
    IF divergence THEN signalStrengthOf(10, 33, trend, obm)
    ELSE signalStrengthOf(6, 20, trend, obm)

\* if (hasDivergence) ... else if (reversal) ... else ...: lines 216-222, 234-240
strengthByPriority(divergence, reversal, trend, obm) ==
    IF divergence THEN signalStrengthOf(10, 33, trend, obm)
    ELSE IF reversal THEN signalStrengthOf(8, 25, trend, obm)
    ELSE signalStrengthOf(6, 20, trend, obm)

\* i - lastSignalIndex >= signalCooldown: one index too early
CooledDownEarly(i, last) == i - last >= signalCooldown

\* i - lastSignalIndex > signalCooldown
CooledDown(i, last) == i - last > signalCooldown

\* the position is not looked at
mayEnterAnyway(inPosition, i, last) == CooledDown(i, last)

\* !inLongPosition && i - lastSignalIndex > signalCooldown (!inShortPosition for SELL)
mayEnter(inPosition, i, last) == ~inPosition /\ CooledDown(i, last)

\* lines 195-258: the decision of one loop iteration
DecideSignal(i, obm, obmPrev, obmPrev2, trend, bull, bear, inLong, inShort, last) ==
    LET crossedAboveZero == obmPrev <= 0 /\ obm > 0 /\ trend > 0
        crossedBelowZero == obmPrev >= 0 /\ obm < 0 /\ trend < 0
        bullishReversal  == obm > 0 /\ obmPrev < obmPrev2 /\ obm > obmPrev /\ trend > 0
        bearishReversal  == obm < 0 /\ obmPrev > obmPrev2 /\ obm < obmPrev /\ trend < 0
    IN  IF (crossedAboveZero \/ bullishReversal \/ bull) /\ mayEnter(inLong, i, last)
        THEN [ signal |-> "BUY", inLong |-> TRUE, inShort |-> FALSE, last |-> i,
               crossedUp |-> crossedAboveZero,
               signalStrength |-> strengthByPriority(bull, bullishReversal, trend, obm) ]
        ELSE IF (crossedBelowZero \/ bearishReversal \/ bear)
                /\ mayEnter(inShort, i, last)
        THEN [ signal |-> "SELL", inLong |-> FALSE, inShort |-> TRUE, last |-> i,
               crossedUp |-> crossedAboveZero,
               signalStrength |-> strengthByPriority(bear, bearishReversal, trend, obm) ]
        ELSE [ signal |-> "NONE", inLong |-> inLong, inShort |-> inShort, last |-> last,
               crossedUp |-> crossedAboveZero,
               signalStrength |-> 0 ]

InitOBM ==
    /\ pathCount = 1
    /\ \E T \in 0..MaxRows :
          heatmapData = HeatmapDataOf(UniformGrid(2), T,
                                      [kind |-> "zero", k0 |-> 0, drift |-> 0])
    /\ candlestickData = EmptyArr
    /\ pc = "obmStart"
    /\ refractiveIndices = EmptyArr /\ entryPoints = EmptyArr
    /\ allPaths = EmptyArr /\ loopI = 0 /\ result = EmptyResult
    /\ FrameIdle /\ TfIdle /\ EntIdle /\ ObmIdle /\ MomIdle /\ LoadIdle

\* lines 38-191: the guard, the series, the state of the signal loop
ObmSeries ==
    /\ pc = "obmStart"
    /\ \/ /\ TooFewRows(heatmapData)
          /\ pc' = "done"
          /\ UNCHANGED << obmResult, obmI, smoothed >>
       \/ /\ ~TooFewRows(heatmapData)
          /\ obmResult' = SeriesOf(heatmapData)
          /\ obmI' = 3
          /\ \E s1 \in ObmValues : \E s2 \in ObmValues :
                smoothed' = [obm |-> s2, obmPrev |-> s1, obmPrev2 |-> 0]
          /\ pc' = "signals"
    /\ UNCHANGED << predVarsButPc, tfVars, entVars, trendNow, divNow,
                    inLongPosition, inShortPosition, lastSignalIndex, momVars, loadVars,
                    buyCross >>

\* lines 193-262: one iteration of the signal loop
SignalStep ==
    /\ pc = "signals"
    /\ obmI < Len0(obmResult.obmValues)
    /\ \E obm \in ObmValues :
       \E trend \in (IF obmI < windowSizeOf(Len0(obmResult.obmValues))
                     THEN {0} ELSE TrendValues) :
       \E bull \in BullishChoices(obmI, Len0(obmResult.obmValues), obm) :
       \E bear \in BearishChoices(obmI, Len0(obmResult.obmValues), obm) :
          LET d == DecideSignal(obmI, obm, smoothed.obm, smoothed.obmPrev, trend,
                                bull, bear, inLongPosition, inShortPosition,
                                lastSignalIndex)
          IN  /\ smoothed' = [obm |-> obm, obmPrev |-> smoothed.obm,
                              obmPrev2 |-> smoothed.obmPrev]
              /\ trendNow' = trend
              /\ divNow' = [bullish |-> bull, bearish |-> bear]
              /\ inLongPosition' = d.inLong
              /\ inShortPosition' = d.inShort
              /\ lastSignalIndex' = d.last
              /\ obmResult' = [obmResult EXCEPT
                    !.signals = Push(@, d.signal),
                    !.signalStrengths = Push(@, d.signalStrength)]
              /\ buyCross' = IF d.crossedUp /\ ~inLongPosition
                                /\ obmI - lastSignalIndex > 5
                             THEN buyCross \cup {obmI} ELSE buyCross
    /\ obmI' = obmI + 1
    /\ UNCHANGED << predVars, tfVars, entVars, momVars, loadVars >>

\* line 265
ObmReturn ==
    /\ pc = "signals"
    /\ obmI >= Len0(obmResult.obmValues)
    /\ pc' = "done"
    /\ UNCHANGED << predVarsButPc, tfVars, entVars, obmVars, momVars, loadVars, buyCross >>

NextOBM == ObmSeries \/ SignalStep \/ ObmReturn

SpecOBM == InitOBM /\ [][NextOBM]_vars

----------------------------------------------------------------------------
(* determineEntryPoints and determineEntryPointsP5, step by step *)

EntLevels == 9

\* four paths on a short grid are needed for a pass to push entries together
EntPaths == 4

EntryGrids ==
    { UniformGrid(n) : n \in 1..EntLevels } \cup { SkewGrid(n) : n \in 3..EntLevels }

InitEntry ==
    /\ pathCount \in 1..EntPaths
    /\ entFn \in {"determineEntryPoints", "determineEntryPointsP5"}
    /\ \E grid \in EntryGrids : \E c0 \in 0..(Len0(grid) - 1) :
          /\ heatmapData = HeatmapDataOf(grid, 1, [kind |-> "zero", k0 |-> 0, drift |-> 0])
          /\ candlestickData = CandlesOf(grid, 1, c0, 0)
    /\ pc = "entStart"
    /\ entHasAdjusted = TRUE /\ entIteration = 0 /\ marketChecked = "none"
    /\ refractiveIndices = EmptyArr /\ entryPoints = EmptyArr
    /\ allPaths = EmptyArr /\ loopI = 0 /\ result = EmptyResult
    /\ FrameIdle /\ TfIdle /\ ObmIdle /\ MomIdle /\ LoadIdle

entOthers == << inputVars, refractiveIndices, allPaths, loopI, result, frameVars,
                tfVars, obmVars, momVars, loadVars, buyCross, entFn >>

\* part_003 lines 99-126, part_002 lines 137-169: the evenly spaced entries
EntGenerate ==
    /\ pc = "entStart"
    /\ entryPoints' = GenerateEntries(heatmapData.priceLevels, pathCount)
    /\ entHasAdjusted' = TRUE
    /\ entIteration' = 0
    /\ pc' = IF entFn = "determineEntryPoints" THEN "relax" ELSE "market"
    /\ UNCHANGED << entOthers, marketChecked >>

\* part_003 lines 128-165: one pass of the while loop
EntRelaxPass ==
    /\ pc = "relax"
    /\ entHasAdjusted /\ entIteration < maxIterations
    /\ LET r == RelaxPass(entryPoints, heatmapData.priceLevels,
                          minSeparationOf(P_, pathCount))
       IN  /\ entryPoints' = r.eps
           /\ entHasAdjusted' = r.hasAdjusted
    /\ entIteration' = entIteration + 1
    /\ UNCHANGED << entOthers, pc, marketChecked >>

\* the loop left after any pass, adjusted or not
EntRelaxExitEarly ==
    /\ pc = "relax"
    /\ entIteration >= 1
    /\ pc' = "market"
    /\ UNCHANGED << entOthers, entryPoints, entHasAdjusted, entIteration, marketChecked >>

\* the while loop ends
EntRelaxExit ==
    /\ pc = "relax"
    /\ ~(entHasAdjusted /\ entIteration < maxIterations)
    /\ pc' = "market"
    /\ UNCHANGED << entOthers, entryPoints, entHasAdjusted, entIteration, marketChecked >>

\* part_003 lines 167-186, part_002 lines 171-190: the market-price check
EntMarket ==
    /\ pc = "market"
    /\ marketChecked' =
          IF hasMarketPrice(entryPoints,
                            findClosestPriceIndex(heatmapData.priceLevels,
                                                  candlestickData[0]),
                            minSeparationOf(P_, pathCount))
          THEN "present" ELSE "absent"
    /\ entryPoints' = EnsureMarketPrice(entryPoints, heatmapData.priceLevels,
                                        candlestickData[0],
                                        minSeparationOf(P_, pathCount))
    /\ pc' = "done"
    /\ UNCHANGED << entOthers, entHasAdjusted, entIteration >>

NextEntry == EntGenerate \/ EntRelaxPass \/ EntRelaxExit \/ EntMarket

SpecEntry == InitEntry /\ [][NextEntry]_vars

----------------------------------------------------------------------------
(* findOptimalPricePath called on its own, on any field *)

PathLevels == 4
PathT      == 3

\* a row with impassable cells (3.5) from wallLo to wallHi, the cell "low" at
\* 1.0 and every other cell at 3.0 or 2.0 by parity
WallRow(P, w) ==
    MkArr(P, LAMBDA j :
        IF w.wallLo <= j /\ j <= w.wallHi THEN (7 * FieldScale) \div 2
        ELSE IF j = w.low THEN FieldScale
        ELSE IF j % 2 = 0 THEN 3 * FieldScale ELSE 2 * FieldScale)

WallParams(P) ==
    { [wallLo |-> a, wallHi |-> b, low |-> l] :
         a \in 0..P, b \in -1..(P - 1), l \in 0..(P - 1) }

\* the same row at every timestamp
WallField(P, T, w) == MkArr(T, LAMBDA t : WallRow(P, w))

\* a finished path that stays at level q
FlatPath(field, priceLevels, timestamps, q) ==
    MkArr(Len0(timestamps), LAMBDA t : PathPoint(field, priceLevels, timestamps, t, q))

InitPath ==
    /\ pathCount = 1
    /\ \E T \in 2..PathT :
          heatmapData = [ timestamps  |-> Timestamps(T),
                          priceLevels |-> UniformGrid(PathLevels),
                          heatmap     |-> MkArr(T, LAMBDA t : ZeroRow(PathLevels)) ]
    /\ \E w \in WallParams(PathLevels) :
          /\ w.wallLo <= w.wallHi \/ (w.wallLo = PathLevels /\ w.wallHi = -1)
          /\ refractiveIndices = WallField(PathLevels, T_, w)
    /\ \E C \in 2..PathT : \E c0 \in {0, PathLevels - 1} :
          candlestickData = CandlesOf(heatmapData.priceLevels, C, c0, 0)
    /\ \E e \in 0..(PathLevels - 1) :
          fEntryPoint = [ price |-> << heatmapData.priceLevels[e], 1 >>,
                          index |-> e, timeIndex |-> 0 ]
    /\ \E qs \in { EmptyArr } \cup { (0 :> q) : q \in 0..(PathLevels - 1) } :
          /\ fAllPaths = MkArr(Len0(qs), LAMBDA k :
                            FlatPath(refractiveIndices, heatmapData.priceLevels,
                                     heatmapData.timestamps, qs[k]))
          /\ fPathIndex = Len0(qs)
    /\ pc = "call"
    /\ entryPoints = EmptyArr /\ allPaths = EmptyArr /\ loopI = 0
    /\ result = EmptyResult
    /\ path = EmptyArr /\ currentPriceIndex = -1 /\ fTime = 0
    /\ baseSearchRadius = 0 /\ resistanceMap = EmptyArr /\ lastStep = NoStep
    /\ TfIdle /\ EntIdle /\ ObmIdle /\ MomIdle /\ LoadIdle

\* the call itself: lines 190-248
CallDirect ==
    /\ pc = "call"
    /\ EnterFind(fEntryPoint, fAllPaths, fPathIndex)
    /\ UNCHANGED << inputVars, refractiveIndices, entryPoints, allPaths, loopI, result >>
    /\ UNCHANGED << tfVars, entVars, obmVars, momVars, loadVars, buyCross >>

NextPath == CallDirect \/ FindStep \/ FindReturn

SpecPath == InitPath /\ [][NextPath]_vars

----------------------------------------------------------------------------
(* calculateOpticalMomentum called on its own, step by step *)

MomLen == 4

\* what the next point of a path may be: the same instant or an hour later,
\* the price 100 or 101, the resistance of a cell with the
\* row's largest volume or of a cell with none
MomChoices ==
    [ dt : {0, 3600000}, dp : {0, 1},
      resistance : {RefractiveIndexOf(1, 1), RefractiveIndexOf(0, 1)} ]

MomPoint(pth, c) ==
    IF Len0(pth) = 0
    THEN [ time |-> TimeOf(3600), price |-> 100 + c.dp, resistance |-> c.resistance ]
    ELSE [ time       |-> pth[Len0(pth) - 1].time + c.dt,
           price      |-> 100 + c.dp,
           resistance |-> c.resistance ]

RECURSIVE MomPaths(_)
MomPaths(n) ==
    IF n = 0 THEN { EmptyArr }
    ELSE { Push(pth, MomPoint(pth, c)) : pth \in MomPaths(n - 1), c \in MomChoices }

InitMomentum ==
    /\ pathCount = 1
    /\ heatmapData = HeatmapDataOf(UniformGrid(1), 0, [kind |-> "zero", k0 |-> 0, drift |-> 0])
    /\ candlestickData = EmptyArr
    /\ \E n \in 0..MomLen : path \in MomPaths(n)
    /\ pc = "momStart"
    /\ refractiveIndices = EmptyArr /\ entryPoints = EmptyArr
    /\ allPaths = EmptyArr /\ loopI = 0 /\ result = EmptyResult
    /\ fEntryPoint = NoEntry /\ fAllPaths = EmptyArr /\ fPathIndex = -1
    /\ currentPriceIndex = -1 /\ fTime = 0
    /\ baseSearchRadius = 0 /\ resistanceMap = EmptyArr /\ lastStep = NoStep
    /\ TfIdle /\ EntIdle /\ ObmIdle /\ MomIdle /\ LoadIdle

momOthers == << inputVars, refractiveIndices, entryPoints, allPaths, loopI, result,
                frameVars, tfVars, entVars, obmVars, loadVars, buyCross >>

\* lines 354-371: the guard and the first vector
MomEnter ==
    /\ pc = "momStart"
    /\ \/ /\ Len0(path) < 3
          /\ pc' = "momDone"
          /\ UNCHANGED momVars
       \/ /\ Len0(path) >= 3
          /\ momentumVectors' = Push(EmptyArr, ZeroVector(path[0]))
          /\ momI' = 1
          /\ pc' = "momLoop"
          /\ UNCHANGED confidenceScores
    /\ UNCHANGED momOthers

\* lines 374-433: one iteration of the loop
MomStep ==
    /\ pc = "momLoop"
    /\ momI < Len0(path) - 1
    /\ LET m == MomentumAt(path, momI, momentumVectors)
       IN  /\ momentumVectors' = Push(momentumVectors, m.vector)
           /\ confidenceScores' = Push(confidenceScores, m.confidence)
    /\ momI' = momI + 1
    /\ UNCHANGED << momOthers, pc >>

\* lines 436-451: the final point and the return
MomFinal ==
    /\ pc = "momLoop"
    /\ momI >= Len0(path) - 1
    /\ IF Len0(momentumVectors) > 1
       THEN /\ momentumVectors' = Push(momentumVectors, FinalVector(path, momentumVectors))
            /\ confidenceScores' = Push(confidenceScores, FinalConfidence(confidenceScores))
       ELSE UNCHANGED << momentumVectors, confidenceScores >>
    /\ pc' = "momDone"
    /\ UNCHANGED << momOthers, momI >>

NextMomentum == MomEnter \/ MomStep \/ MomFinal

SpecMomentum == InitMomentum /\ [][NextMomentum]_vars

----------------------------------------------------------------------------
(* The page: loadData (app.js).  Request r + 1 is the r-th call; the data the  *)
(* server returns for it is named by its number, 0 being the initial empty     *)
(* cache.  A call's endTime is read off the clock when it is made, so          *)
(* lastFetchTime is the number of the call too.  The event loop runs one       *)
(* callback at a time: each action below is one callback.                      *)

MaxRequests == 3

Fetches == {"candlesticks", "heatmap"}

InitLoad ==
    /\ pathCount = 1
    /\ heatmapData = HeatmapDataOf(UniformGrid(1), 0,
                                   [kind |-> "zero", k0 |-> 0, drift |-> 0])
    /\ candlestickData = EmptyArr
    /\ pc = "page"
    /\ refractiveIndices = EmptyArr /\ entryPoints = EmptyArr
    /\ allPaths = EmptyArr /\ loopI = 0 /\ result = EmptyResult
    /\ FrameIdle /\ TfIdle /\ EntIdle /\ ObmIdle /\ MomIdle /\ LoadIdle

loadOthers == << predVars, tfVars, entVars, obmVars, momVars, buyCross >>

\* lines 131-197: the initial load, a control's listener or the timer calls
\* loadData: "Loading data..." is shown and the two fetches are started
loadData ==
    /\ Len0(requests) < MaxRequests
    /\ requests' = Push(requests, [arrived |-> {}, state |-> "pending"])
    /\ chart' = [shows |-> "loading", candlestick |-> 0, heatmap |-> 0]
    /\ UNCHANGED << lastFetchTime, cachedCandlestickData, cachedHeatmapData, loadOthers >>

\* lines 194-198: one of the two responses of a call has arrived and is parsed
FetchResponds ==
    /\ \E r \in DOMAIN requests : \E f \in Fetches \ requests[r].arrived :
          /\ requests[r].state = "pending"
          /\ requests' = [requests EXCEPT ![r].arrived = @ \cup {f}]
    /\ UNCHANGED << lastFetchTime, cachedCandlestickData, cachedHeatmapData, chart,
                    loadOthers >>

\* lines 199-212: both responses are there; the data is stored and rendered
LoadThen ==
    /\ \E r \in DOMAIN requests :
          /\ requests[r].state = "pending"
          /\ requests[r].arrived = Fetches
          /\ cachedCandlestickData' = r + 1
          /\ cachedHeatmapData' = r + 1
          /\ lastFetchTime' = r + 1
          /\ chart' = [shows |-> "data", candlestick |-> r + 1, heatmap |-> r + 1]
          /\ requests' = [requests EXCEPT ![r].state = "stored"]
    /\ UNCHANGED loadOthers

\* lines 213-216: a fetch of the call fails; the error text is shown
LoadCatch ==
    /\ \E r \in DOMAIN requests :
          /\ requests[r].state = "pending"
          /\ requests[r].arrived # Fetches
          /\ chart' = [shows |-> "failed", candlestick |-> 0, heatmap |-> 0]
          /\ requests' = [requests EXCEPT ![r].state = "failed"]
    /\ UNCHANGED << lastFetchTime, cachedCandlestickData, cachedHeatmapData, loadOthers >>

NextLoad == loadData \/ FetchResponds \/ LoadThen \/ LoadCatch

SpecLoad == InitLoad /\ [][NextLoad]_vars

----------------------------------------------------------------------------
(* Claims *)

\* C1: in calculatePricePrediction the paths are computed in entry-point order
\* 0..pathCount-1; while path k is computed the list handed to
\* findOptimalPricePath is exactly the completed paths 0..k-1 in that order,
\* and the repulsion term reads only those (all of them finished, none with a
\* higher index).
C1_PriorPathsAreTheCompletedPrefix ==
    /\ Len0(allPaths) = loopI
    /\ result.predictedPaths = allPaths
    /\ \A k \in DOMAIN allPaths :
          Len0(allPaths[k]) > 0 =>
             allPaths[k][0].price = heatmapData.priceLevels[entryPoints[k].index]
    /\ pc \in {"find", "return"} =>
          /\ fPathIndex = loopI
          /\ fAllPaths = allPaths
          /\ fEntryPoint = entryPoints[loopI]
          /\ \A p \in lastStep.readPaths :
                /\ p < fPathIndex
                /\ Len0(fAllPaths[p]) = T_

\* a third path has just read both completed paths
C1_Witness ==
    /\ pc = "find"
    /\ fPathIndex = 2
    /\ lastStep.readPaths = {0, 1}
    /\ entryPoints[0].index # entryPoints[1].index

\* C2: at every step of findOptimalPricePath the appended index is the
\* candidate of least total cost among the candidates of the window whose
\* field value is not above 3, the lowest such index on a tie; when every
\* candidate is excluded the appended index is the index of the previous step.
C2_AppendedIsCheapestPassable ==
    lastStep.i >= 0 =>
       LET i     == lastStep.i
           cands == { j \in lastStep.lowerBound..lastStep.upperBound :
                         refractiveIndices[i][j] <= 3 * FieldScale }
           cost(j) == totalResistance(refractiveIndices, heatmapData.priceLevels,
                                      heatmapData.timestamps, fAllPaths, fPathIndex,
                                      i, j, lastStep.from, lastStep.actualPriceIndex)
       IN  /\ path[Len0(path) - 1].price = heatmapData.priceLevels[lastStep.chosen]
           /\ path[Len0(path) - 1].time = TimeOf(heatmapData.timestamps[i])
           /\ path[Len0(path) - 2].price = heatmapData.priceLevels[lastStep.from]
           /\ currentPriceIndex = lastStep.chosen
           /\ cands # {} =>
                 /\ lastStep.chosen \in cands
                 /\ \A j \in cands :
                       /\ cost(lastStep.chosen) <= cost(j)
                       /\ j < lastStep.chosen => cost(lastStep.chosen) < cost(j)
           /\ cands = {} => lastStep.chosen = lastStep.from

\* a step that moved to another index, past an excluded candidate, with
\* another candidate at the same least cost
C2_Witness ==
    /\ lastStep.i >= 0
    /\ lastStep.chosen # lastStep.from
    /\ \E j \in lastStep.lowerBound..lastStep.upperBound :
          refractiveIndices[lastStep.i][j] > 3 * FieldScale
    /\ \E j \in lastStep.lowerBound..lastStep.upperBound :
          /\ j > lastStep.chosen
          /\ refractiveIndices[lastStep.i][j] <= 3 * FieldScale
          /\ totalResistance(refractiveIndices, heatmapData.priceLevels,
                             heatmapData.timestamps, fAllPaths, fPathIndex,
                             lastStep.i, j, lastStep.from, lastStep.actualPriceIndex)
             = totalResistance(refractiveIndices, heatmapData.priceLevels,
                               heatmapData.timestamps, fAllPaths, fPathIndex,
                               lastStep.i, lastStep.chosen, lastStep.from,
                               lastStep.actualPriceIndex)

\* the fallback: a step whose whole window is excluded
C2_WitnessFallback ==
    /\ lastStep.i >= 0
    /\ \A j \in lastStep.lowerBound..lastStep.upperBound :
          refractiveIndices[lastStep.i][j] > 3 * FieldScale

IndexOfPoint(pt) == findClosestPriceIndex(heatmapData.priceLevels, pt.price)

\* C4 (as stated): for the same heatmap, candlesticks and pathCount the tensor
\* backend and the p5 backend return the same entry-point indices and, path by
\* path, the same sequence of price indices.
C4_SameIndicesAsP5 ==
    (pc = "done" /\ tfRoute = "tensor" /\ Len0(heatmapData.heatmap) > 0
                 /\ Len0(candlestickData) > 0) =>
       LET p5      == calculatePricePredictionP5(heatmapData, candlestickData, pathCount)
           p5Entry == determineEntryPointsP5(heatmapData, candlestickData, pathCount)
       IN  /\ Len0(entryPoints) = Len0(p5Entry)
           /\ \A k \in DOMAIN entryPoints :
                 entryPoints[k].priceIndex = p5Entry[k].index
           /\ Len0(result.predictedPaths) = Len0(p5.predictedPaths)
           /\ \A k \in DOMAIN result.predictedPaths :
                 /\ Len0(result.predictedPaths[k]) = Len0(p5.predictedPaths[k])
                 /\ \A t \in DOMAIN result.predictedPaths[k] :
                       result.predictedPaths[k][t].priceIndex
                          = IndexOfPoint(p5.predictedPaths[k][t])

\* C5: when initTensorFlow fails, or a statement of the try block throws,
\* calculatePricePredictionTensor returns what calculatePricePredictionP5
\* returns for the same heatmap, candlesticks and pathCount, and no error
\* leaves the function.
C5_FallbackReturnsP5 ==
    /\ pc # "rejected"
    /\ (pc = "done" /\ tfRoute \in {"initFailed", "caught"}) =>
          result = calculatePricePredictionP5(heatmapData, candlestickData, pathCount)

\* a throw after two paths were computed, answered with three p5 paths
C5_Witness ==
    /\ pc = "done"
    /\ tfRoute = "caught"
    /\ Len0(allPaths) = 2
    /\ Len0(result.predictedPaths) = 3
    /\ Len0(result.predictedPaths[2]) = 3

\* C6: every element of signals is "BUY", "SELL" or "NONE", each loop index
\* contributes exactly one element (with one strength), and any two elements
\* other than "NONE" are more than 5 indices apart.
C6_SignalsSparse ==
    LET signals == obmResult.signals
    IN  /\ \A k \in DOMAIN signals : signals[k] \in {"BUY", "SELL", "NONE"}
        /\ Len0(obmResult.signalStrengths) = Len0(signals)
        /\ pc = "signals" => Len0(signals) = obmI - 3
        /\ \A j \in DOMAIN signals : \A k \in DOMAIN signals :
              (j < k /\ signals[j] # "NONE" /\ signals[k] # "NONE") => k - j > 5

\* a BUY followed by a SELL exactly 6 indices later
C6_Witness ==
    \E j \in DOMAIN obmResult.signals :
       /\ j + 6 \in DOMAIN obmResult.signals
       /\ obmResult.signals[j] = "BUY"
       /\ obmResult.signals[j + 6] = "SELL"

\* C7 (as stated): for a heatmap of at least 10 rows, signals and
\* signalStrengths have the length of obmValues (they are parallel to
\* timestamps and obmValues).
C7_SignalsParallel ==
    (pc = "done" /\ Len0(heatmapData.heatmap) >= 10) =>
       /\ Len0(obmResult.signals) = Len0(obmResult.obmValues)
       /\ Len0(obmResult.signalStrengths) = Len0(obmResult.obmValues)

\* C8: for T >= 10 rows, timestamps, obmValues, trendStrength and
\* forecastValues each have length T - 1, and forecastValues[i] is null exactly
\* for i < 3.
C8_SeriesLengths ==
    (pc \in {"signals", "done"} /\ Len0(heatmapData.heatmap) >= 10) =>
       LET n == Len0(heatmapData.heatmap) - 1
       IN  /\ Len0(obmResult.timestamps) = n
           /\ Len0(obmResult.obmValues) = n
           /\ Len0(obmResult.trendStrength) = n
           /\ Len0(obmResult.forecastValues) = n
           /\ \A i \in 0..(n - 1) :
                 (obmResult.forecastValues[i] = "null") <=> (i < 3)
           /\ \A i \in 0..(n - 1) :
                 obmResult.timestamps[i] = TimeOf(heatmapData.timestamps[i + 1])

C8_Witness ==
    /\ pc = "done"
    /\ Len0(heatmapData.heatmap) = 10
    /\ Len0(obmResult.forecastValues) = 9
    /\ obmResult.forecastValues[2] = "null"
    /\ obmResult.forecastValues[3] = "number"

\* C9 (as stated): when the smoothed OBM goes from non-positive at i-1 to
\* positive at i with a positive trend at i, no long position is open and no
\* signal was emitted in the 5 preceding indices, the returned signals hold
\* "BUY" at index i with a strength in [0, 100], and "NONE" at the next 5
\* indices.
C9_BuyAtCrossingIndex ==
    pc = "done" =>
       \A i \in buyCross :
          /\ i \in DOMAIN obmResult.signals
          /\ obmResult.signals[i] = "BUY"
          /\ obmResult.signalStrengths[i] \in 0..100
          /\ \A k \in (i + 1)..(i + 5) :
                k \in DOMAIN obmResult.signals => obmResult.signals[k] = "NONE"

\* what the code does for such an index i: the "BUY" is the element pushed by
\* iteration i, which is element i - 3 of signals
BuyAtShiftedIndex ==
    \A i \in buyCross :
       /\ i - 3 \in DOMAIN obmResult.signals
       /\ obmResult.signals[i - 3] = "BUY"
       /\ obmResult.signalStrengths[i - 3] \in 0..100
       /\ \A k \in (i - 2)..(i + 2) :
             k \in DOMAIN obmResult.signals => obmResult.signals[k] = "NONE"

\* C10: the entry points that determineEntryPoints (either variant) returns
\* include one whose index is within minSeparation of the grid index nearest
\* to the first close; when no entry is that near before the check, exactly
\* the entry at position floor(pathCount / 2) is replaced by the market-price
\* point and every other entry stays as it was; otherwise nothing changes.
C10_MarketPriceIncluded ==
    [][ (pc = "market" /\ pc' = "done") =>
           LET firstPrice      == candlestickData[0]
               firstPriceIndex == findClosestPriceIndex(heatmapData.priceLevels,
                                                        firstPrice)
               sep             == Max(1, (2 * P_) \div (3 * pathCount))
               near(eps)       == \E k \in DOMAIN eps :
                                     Abs(eps[k].index - firstPriceIndex) <= sep
           IN  /\ near(entryPoints')
               /\ DOMAIN entryPoints' = 0..(pathCount - 1)
               /\ near(entryPoints) => entryPoints' = entryPoints
               /\ ~near(entryPoints) =>
                     /\ entryPoints'[pathCount \div 2] =
                           [ price |-> << firstPrice, 1 >>,
                             index |-> firstPriceIndex, timeIndex |-> 0 ]
                     /\ \A k \in DOMAIN entryPoints :
                           k # pathCount \div 2 => entryPoints'[k] = entryPoints[k]
      ]_vars

\* two entries, none near the market price: the second one was replaced
C10_Witness ==
    /\ pc = "done"
    /\ marketChecked = "absent"
    /\ pathCount = 2
    /\ entryPoints[1].price = << candlestickData[0], 1 >>
    /\ entryPoints[0].price # << candlestickData[0], 1 >>

\* the step-by-step run returns what the function returns
EntryStepsAgree ==
    (pc = "done" /\ entFn # "none") =>
       entryPoints = IF entFn = "determineEntryPoints"
                     THEN determineEntryPoints(heatmapData, candlestickData, pathCount)
                     ELSE determineEntryPointsP5(heatmapData, candlestickData, pathCount)

----------------------------------------------------------------------------
(* the repulsion relaxation of determineEntryPoints *)

\* every pair of entries is at least minSeparation apart
AllSeparated(eps, minSeparation) ==
    \A i \in DOMAIN eps : \A j \in DOMAIN eps :
        i < j => Abs(eps[i].index - eps[j].index) >= minSeparation

RECURSIVE ViolationFrom(_, _, _, _)
\* sum over pairs (i, j), i < j, of max(0, minSeparation - |index_i - index_j|)
ViolationFrom(eps, minSeparation, i, j) ==
    IF i >= Len0(eps) THEN 0
    ELSE IF j >= Len0(eps) THEN ViolationFrom(eps, minSeparation, i + 1, i + 2)
         ELSE Max(0, minSeparation - Abs(eps[i].index - eps[j].index))
              + ViolationFrom(eps, minSeparation, i, j + 1)

SeparationViolation(eps, minSeparation) == ViolationFrom(eps, minSeparation, 0, 1)

\* C11: the relaxation loop of determineEntryPoints makes at least one and at
\* most 20 passes, makes no further pass after one in which no pair was
\* adjusted, and when it has stopped either every pair of entry indices is at
\* least minSeparation apart or all 20 passes were used.
C11_RelaxationStops ==
    /\ entIteration <= maxIterations
    /\ (pc = "relax" /\ ~entHasAdjusted) => ~ENABLED EntRelaxPass
    /\ (pc = "market" /\ entFn = "determineEntryPoints") =>
          /\ entIteration >= 1
          /\ \/ AllSeparated(entryPoints, minSeparationOf(P_, pathCount))
             \/ entIteration = maxIterations
          /\ ~entHasAdjusted =>
                AllSeparated(entryPoints, minSeparationOf(P_, pathCount))

\* three entries that needed several passes and ended separated
C11_Witness ==
    /\ pc = "market"
    /\ entFn = "determineEntryPoints"
    /\ pathCount = 3
    /\ entIteration \in 2..(maxIterations - 1)
    /\ ~entHasAdjusted
    /\ AllSeparated(entryPoints, minSeparationOf(P_, pathCount))

\* the loop gave up after 20 passes with a pair still too close
C11_WitnessCap ==
    /\ pc = "market"
    /\ entIteration = maxIterations
    /\ ~AllSeparated(entryPoints, minSeparationOf(P_, pathCount))

\* C12: from one pass of the relaxation to the next the sum over all pairs of
\* max(0, minSeparation - |index_i - index_j|) never increases.
C12_ViolationNeverIncreases ==
    [][ (pc = "relax" /\ pc' = "relax") =>
           SeparationViolation(entryPoints', minSeparationOf(P_, pathCount))
              <= SeparationViolation(entryPoints, minSeparationOf(P_, pathCount))
      ]_vars

----------------------------------------------------------------------------
(* a single path *)

\* C13 (as stated): with pathCount = 1 the prediction produces exactly one
\* path, and the first point of that path is at the grid level nearest to the
\* first candlestick's close.
C13_SinglePathStartsAtClose ==
    (pc = "done" /\ pathCount = 1 /\ T_ >= 2 /\ Len0(candlestickData) >= 2) =>
       /\ Len0(result.predictedPaths) = 1
       /\ Len0(result.predictedPaths[0]) >= 1
       /\ result.predictedPaths[0][0].price =
             heatmapData.priceLevels[findClosestPriceIndex(heatmapData.priceLevels,
                                                           candlestickData[0])]

\* what holds instead: the single path starts at the lowest-priced end of the
\* evenly spaced generation (index of the minimum price) unless the first
\* close is more than minSeparation levels away from it
SinglePathStartsAtMinimum ==
    (pc = "done" /\ pathCount = 1 /\ T_ >= 2 /\ Len0(candlestickData) >= 2) =>
       LET priceLevels     == heatmapData.priceLevels
           firstPriceIndex == findClosestPriceIndex(priceLevels, candlestickData[0])
           lowIndex        == findClosestPriceIndex(priceLevels, MinFrom(priceLevels, 0))
       IN  /\ Len0(result.predictedPaths) = 1
           /\ result.predictedPaths[0][0].price =
                 priceLevels[IF Abs(lowIndex - firstPriceIndex)
                                   <= minSeparationOf(P_, 1)
                             THEN lowIndex ELSE firstPriceIndex]

----------------------------------------------------------------------------
(* the three collections of the result *)

\* C14: for non-empty inputs the result of calculatePricePrediction (and of
\* calculatePricePredictionP5) has exactly pathCount entries in each of
\* predictedPaths, momentumVectorsCollection and confidenceScoresCollection,
\* and entry k of the two derived collections is what
\* calculateOpticalMomentum returns for predictedPaths[k].
C14_CollectionsParallel ==
    (pc = "done" /\ Len0(heatmapData.heatmap) > 0 /\ Len0(candlestickData) > 0) =>
       LET p5 == calculatePricePredictionP5(heatmapData, candlestickData, pathCount)
       IN  /\ Len0(result.predictedPaths) = pathCount
           /\ Len0(result.momentumVectorsCollection) = pathCount
           /\ Len0(result.confidenceScoresCollection) = pathCount
           /\ \A k \in 0..(pathCount - 1) :
                 LET prediction == calculateOpticalMomentum(result.predictedPaths[k])
                 IN  /\ result.momentumVectorsCollection[k] = prediction.momentumVectors
                     /\ result.confidenceScoresCollection[k] = prediction.confidenceScores
           /\ Len0(p5.predictedPaths) = pathCount
           /\ Len0(p5.momentumVectorsCollection) = pathCount
           /\ Len0(p5.confidenceScoresCollection) = pathCount

\* three paths of three points each, the first two different, each with its
\* own three momentum vectors
C14_Witness ==
    /\ pc = "done"
    /\ pathCount = 3
    /\ Len0(result.predictedPaths) = 3
    /\ result.predictedPaths[0] # result.predictedPaths[1]
    /\ \A k \in 0..2 :
          /\ Len0(result.predictedPaths[k]) = 3
          /\ Len0(result.momentumVectorsCollection[k]) = 3
          /\ result.momentumVectorsCollection[k][1].y = result.predictedPaths[k][1].price

----------------------------------------------------------------------------
(* what a running findOptimalPricePath call touches *)

\* C15: while findOptimalPricePath computes path k (from the call to the
\* return) the earlier paths 0..k-1, the refractive field, the heatmap and the
\* entry points stay as they are; the path under construction starts with one
\* point and each step appends exactly one point to it, leaving the points it
\* already has unchanged.
C15_OnlyThePathGrows ==
    [][ (pc' \in {"find", "return"}) =>
           /\ allPaths' = allPaths
           /\ refractiveIndices' = refractiveIndices
           /\ heatmapData' = heatmapData
           /\ entryPoints' = entryPoints
           /\ fAllPaths' = allPaths
           /\ (pc = "loop" /\ pc' = "find") => Len0(path') = 1
           /\ (pc = "find" /\ pc' = "find") =>
                 /\ Len0(path') = Len0(path) + 1
                 /\ \A k \in DOMAIN path : path'[k] = path[k]
           /\ (pc = "find" /\ pc' = "return") => path' = path
      ]_vars

\* the third path has grown to three points while two finished paths exist
C15_Witness ==
    /\ pc = "find"
    /\ fPathIndex = 2
    /\ Len0(allPaths) = 2
    /\ Len0(allPaths[0]) = 3
    /\ Len0(path) = 3
    /\ lastStep.readPaths = {0, 1}

----------------------------------------------------------------------------
(* calculateOpticalMomentum *)

\* the step-by-step run returns what the function returns
MomentumStepsAgree ==
    pc = "momDone" =>
       [ momentumVectors |-> momentumVectors, confidenceScores |-> confidenceScores ]
          = calculateOpticalMomentum(path)

\* C16: for a path of at least 3 points calculateOpticalMomentum returns as
\* many momentum vectors as the path has points: a zero first vector at the
\* first point, one vector at each interior point, and a final vector at the
\* last point with dx, dy, magnitude and direction of the last interior
\* vector; for a path of fewer than 3 points both returned arrays are empty.
C16_OneVectorPerPoint ==
    pc = "momDone" =>
       LET n == Len0(path)
       IN  /\ n < 3 => (momentumVectors = EmptyArr /\ confidenceScores = EmptyArr)
           /\ n >= 3 =>
                 /\ Len0(momentumVectors) = n
                 /\ \A k \in 0..(n - 1) :
                       /\ momentumVectors[k].x = path[k].time
                       /\ momentumVectors[k].y = path[k].price
                 /\ momentumVectors[0].dx = 0
                 /\ momentumVectors[0].dy = << 0, 1 >>
                 /\ momentumVectors[0].magnitude = Hypot(0, << 0, 1 >>)
                 /\ \A k \in 1..(n - 2) : momentumVectors[k].dx = 1
                 /\ momentumVectors[n - 1].dx = momentumVectors[n - 2].dx
                 /\ momentumVectors[n - 1].dy = momentumVectors[n - 2].dy
                 /\ momentumVectors[n - 1].magnitude = momentumVectors[n - 2].magnitude
                 /\ momentumVectors[n - 1].direction = momentumVectors[n - 2].direction

\* four points, rising then falling: the last two vectors point down, the
\* first interior one points up
C16_Witness ==
    /\ pc = "momDone"
    /\ Len0(path) = 4
    /\ Len0(momentumVectors) = 4
    /\ momentumVectors[1].dy[1] > 0
    /\ momentumVectors[2].dy[1] < 0
    /\ momentumVectors[3].dy = momentumVectors[2].dy

\* C17 (as stated): every confidence score that calculateOpticalMomentum
\* returns is a number greater than 0.3 and at most 1.0.
C17_ConfidenceInRange ==
    \A k \in DOMAIN confidenceScores :
        /\ confidenceScores[k].kind = "finite"
        /\ confidenceScores[k].lo > (3 * ScoreUnit) \div 10
        /\ confidenceScores[k].hi <= ScoreUnit

\* every score that is a number is in (0.3, 1.0]
FiniteConfidenceInRange ==
    \A k \in DOMAIN confidenceScores :
        confidenceScores[k].kind = "finite" =>
           /\ confidenceScores[k].lo > (3 * ScoreUnit) \div 10
           /\ confidenceScores[k].hi <= ScoreUnit

\* C18 (as stated): calculateOpticalMomentum never divides by zero: every
\* force (and the acceleration it is made of) and every confidence is a
\* finite number, also when consecutive points have equal timestamps.
C18_NoDivisionByZero ==
    /\ \A k \in DOMAIN momentumVectors :
          "force" \in DOMAIN momentumVectors[k] =>
             momentumVectors[k].force.kind = "finite"
    /\ \A k \in DOMAIN confidenceScores : confidenceScores[k].kind = "finite"

\* what holds: a zero time delta on one side only is absorbed by the 0.001
\* floor; the force is not finite exactly when the two deltas sum to zero
ForceFiniteUnlessDeltasCancel ==
    \A k \in DOMAIN momentumVectors :
        (k >= 1 /\ k <= Len0(path) - 2) =>
           (momentumVectors[k].force.kind = "finite"
               <=> path[k + 1].time # path[k - 1].time)

----------------------------------------------------------------------------
(* the gradient pass *)

\* gradientDown at (t, j) is field[t][j] - field[t][j-1], 0 at j = 0, and
\* gradientUp is field[t][j+1] - field[t][j], 0 at the last index
GradientsAsSpecified(map, field) ==
    /\ Len0(map) = Len0(field)
    /\ \A t \in DOMAIN map :
          /\ Len0(map[t]) = Len0(field[t])
          /\ \A j \in DOMAIN map[t] :
                /\ map[t][j].gradientDown =
                      (IF j = 0 THEN 0 ELSE field[t][j] - field[t][j - 1])
                /\ map[t][j].gradientUp =
                      (IF j = Len0(field[t]) - 1 THEN 0
                       ELSE field[t][j + 1] - field[t][j])

\* C19 (as stated): in the resistance map of each of the three builders,
\* gradientDown at (t, j) equals field[t][j] - field[t][j-1] and is 0 at
\* j = 0, and gradientUp equals field[t][j+1] - field[t][j] and is 0 at the
\* last index.
C19_GradientsAsSpecified ==
    (pc = "tLoop") =>
       /\ GradientsAsSpecified(precomputeResistanceMap(refractiveIndices,
                                                       heatmapData.priceLevels),
                               refractiveIndices)
       /\ GradientsAsSpecified(resistanceMap, refractiveIndices)
       /\ GradientsAsSpecified(precomputeResistanceMapTensor(refractiveIndices,
                                                             heatmapData.priceLevels),
                               refractiveIndices)

\* the scalar builder is as specified, on the tensor field as on the scalar one
ScalarGradientsAsSpecified ==
    (pc \in {"tLoop", "find"}) =>
       GradientsAsSpecified(precomputeResistanceMap(refractiveIndices,
                                                    heatmapData.priceLevels),
                            refractiveIndices)

\* the tensor builder has the two names exchanged and the sign of one turned:
\* its gradientDown is the specified gradientUp, its gradientUp the negated
\* specified gradientDown; the worker's builder has gradientDown as specified
\* and gradientUp negated
TensorGradientsAreExchanged ==
    (pc = "tLoop") =>
       LET spec   == precomputeResistanceMap(refractiveIndices, heatmapData.priceLevels)
           worker == precomputeResistanceMapTensor(refractiveIndices,
                                                   heatmapData.priceLevels)
       IN  \A t \in DOMAIN resistanceMap : \A j \in DOMAIN resistanceMap[t] :
              /\ resistanceMap[t][j].gradientDown = spec[t][j].gradientUp
              /\ resistanceMap[t][j].gradientUp = 0 - spec[t][j].gradientDown
              /\ worker[t][j].gradientDown = spec[t][j].gradientDown
              /\ worker[t][j].gradientUp = 0 - spec[t][j].gradientUp

----------------------------------------------------------------------------
(* the refractive field *)

\* 1 + 2 * exp(-5) = 1.01348, the index of a cell that holds its row's
\* largest volume
IndexAtMaxVolume == FieldScale + 1348

\* the largest |volume| of the whole heatmap
GlobalMaxVolume(heatmap) ==
    LET rowMax == MkArr(Len0(heatmap), LAMBDA t : MaxAbsFrom(heatmap[t], 0))
    IN  MaxFrom(rowMax, 0)

\* C20 (as stated): every value of the refractive field lies in [1, 3], and
\* in a row that contains the globally largest single-level volume the cell
\* at that level is exactly 1.
C20_FieldHasExactOne ==
    (pc \in {"loop", "find", "return", "done"} /\ Len0(refractiveIndices) > 0) =>
       /\ \A t \in DOMAIN refractiveIndices : \A j \in DOMAIN refractiveIndices[t] :
             /\ refractiveIndices[t][j] >= FieldScale
             /\ refractiveIndices[t][j] <= 3 * FieldScale
       /\ \A t \in DOMAIN refractiveIndices : \A j \in DOMAIN refractiveIndices[t] :
             Abs(heatmapData.heatmap[t][j]) = GlobalMaxVolume(heatmapData.heatmap)
                => refractiveIndices[t][j] = FieldScale

\* C20 (amended): every value of the refractive field lies in
\* [1 + 2*exp(-5), 3], that is [1.01348, 3]; in every row that has a non-zero
\* volume the cells holding the row's largest |volume| (so also the cell
\* holding the globally largest volume) are 1 + 2*exp(-5), not 1, and they
\* are the row's smallest; a row without volume is 3 everywhere. The tensor
\* field has the same bounds.
C20_FieldRange ==
    (pc \in {"loop", "find", "return", "done"} /\ Len0(refractiveIndices) > 0) =>
       /\ Len0(refractiveIndices) = Len0(heatmapData.heatmap)
       /\ \A t \in DOMAIN refractiveIndices :
             LET volumes   == heatmapData.heatmap[t]
                 maxVolume == MaxAbsFrom(volumes, 0)
             IN  \A j \in DOMAIN refractiveIndices[t] :
                    /\ refractiveIndices[t][j] >= IndexAtMaxVolume
                    /\ refractiveIndices[t][j] <= 3 * FieldScale
                    /\ maxVolume = 0 => refractiveIndices[t][j] = 3 * FieldScale
                    /\ (maxVolume > 0 /\ Abs(volumes[j]) = maxVolume)
                          => refractiveIndices[t][j] = IndexAtMaxVolume
                    /\ (maxVolume > 0 /\ Abs(volumes[j]) < maxVolume)
                          => refractiveIndices[t][j] > IndexAtMaxVolume
       /\ LET tensor == batchCalculateRefractiveIndicesTensor(heatmapData)
          IN  \A t \in DOMAIN tensor : \A j \in DOMAIN tensor[t] :
                 tensor[t][j] >= IndexAtMaxVolume /\ tensor[t][j] <= 3 * FieldScale

\* a row with all three kinds of cell: the largest volume, half of it, none
C20_Witness ==
    /\ pc = "done"
    /\ Len0(refractiveIndices) = 3
    /\ \E j \in DOMAIN refractiveIndices[0] :
          /\ heatmapData.heatmap[0][j] = GlobalMaxVolume(heatmapData.heatmap)
          /\ refractiveIndices[0][j] = IndexAtMaxVolume
    /\ \E j \in DOMAIN refractiveIndices[0] :
          /\ heatmapData.heatmap[0][j] = -1
          /\ refractiveIndices[0][j] \notin {IndexAtMaxVolume, 3 * FieldScale}
    /\ \E j \in DOMAIN refractiveIndices[0] : refractiveIndices[0][j] = 3 * FieldScale

----------------------------------------------------------------------------
\* C21: calculateOBM on a heatmap with fewer than 10 rows returns a result
\* whose six sequences are all empty; the call has no other way out.
C21_ShortHeatmapGivesEmptyResult ==
    (pc \in {"signals", "done"} /\ Len0(heatmapData.heatmap) < 10) =>
        /\ pc = "done"
        /\ Len0(obmResult.timestamps) = 0
        /\ Len0(obmResult.obmValues) = 0
        /\ Len0(obmResult.trendStrength) = 0
        /\ Len0(obmResult.forecastValues) = 0
        /\ Len0(obmResult.signals) = 0
        /\ Len0(obmResult.signalStrengths) = 0

\* the call has returned for nine rows
C21_Witness ==
    /\ pc = "done"
    /\ Len0(heatmapData.heatmap) = 9
    /\ obmResult = EmptyOBM

----------------------------------------------------------------------------
\* C22: with an empty heatmap or an empty candlestick series the prediction
\* returns the result with every field empty, and neither the field builder
\* nor the entry-point selector nor the path finder has run; the p5 variant
\* returns the same result.
C22_EmptyInputGivesEmptyResult ==
    (Len0(heatmapData.heatmap) = 0 \/ Len0(candlestickData) = 0) =>
        /\ pc \in {"start", "done"}
        /\ result = EmptyResult
        /\ refractiveIndices = EmptyArr
        /\ entryPoints = EmptyArr
        /\ allPaths = EmptyArr
        /\ FrameIdle
        /\ calculatePricePredictionP5(heatmapData, candlestickData, pathCount) = EmptyResult

\* the call has returned for an empty heatmap with candles
C22_Witness ==
    /\ pc = "done"
    /\ Len0(heatmapData.heatmap) = 0
    /\ Len0(candlestickData) > 0
    /\ Len0(result.timestamps) = 0

\* the call has returned for a heatmap without candles
C22_WitnessNoCandles ==
    /\ pc = "done"
    /\ Len0(heatmapData.heatmap) > 0
    /\ Len0(candlestickData) = 0
    /\ Len0(result.actualPrice) = 0

----------------------------------------------------------------------------
\* the grid index of prior path p at step i, read off the path by position
PriorIndexAt(p, i) ==
    CHOOSE q \in DOMAIN heatmapData.priceLevels :
        heatmapData.priceLevels[q] = fAllPaths[p][i].price

\* 0.4 * (D - d) / D for d < D, in units of 1 / (10 * D)
RepulsionShare(d, D) == IF d < D THEN 4 * (D - d) ELSE 0

\* C23: the repulsion term of candidate j at step i is 0 without prior paths
\* (the first path is computed from an empty list), and otherwise the sum over
\* every prior path of 0.4 * (D - d) / D for the prior paths at distance
\* d < D from j, with D = max(1, floor(P / (3 * number of prior paths))).
C23_RepulsionIsSumOverPriorPaths ==
    /\ (pc \in {"find", "return"} /\ fPathIndex = 0) => fAllPaths = EmptyArr
    /\ (pc = "find" /\ lastStep.i >= 0) =>
          LET n == Len0(fAllPaths)
              D == IF n = 0 THEN 1 ELSE Max(1, P_ \div (3 * n))
          IN  \A j \in lastStep.lowerBound .. lastStep.upperBound :
                 10 * D * repulsionEffect(fAllPaths, fPathIndex, heatmapData.priceLevels,
                                          TimeOf(heatmapData.timestamps[lastStep.i]), j)
                 = FieldScale * CostDen(P_, D)
                     * SumArr(MkArr(n, LAMBDA p :
                          RepulsionShare(Abs(j - PriorIndexAt(p, lastStep.i)), D)), 0)

\* a third path has a candidate that two prior paths both repel
C23_Witness ==
    /\ pc = "find"
    /\ fPathIndex = 2
    /\ lastStep.i >= 1
    /\ \E j \in lastStep.lowerBound .. lastStep.upperBound :
          /\ PriorIndexAt(0, lastStep.i) = j
          /\ PriorIndexAt(1, lastStep.i) = j
          /\ repulsionEffect(fAllPaths, fPathIndex, heatmapData.priceLevels,
                             TimeOf(heatmapData.timestamps[lastStep.i]), j) > 0

\* the first path has taken a step: no candidate is repelled
C23_WitnessFirstPath ==
    /\ pc = "find"
    /\ fPathIndex = 0
    /\ lastStep.i >= 1
    /\ lastStep.upperBound > lastStep.lowerBound

----------------------------------------------------------------------------
\* the gradient-preference term as specified, in units of 0.1 / FieldScale
GradientPreference(cell, j, cur) ==
    IF j > cur THEN cell.gradientUp
    ELSE IF j < cur THEN cell.gradientDown ELSE 0

\* C24 (as stated): in the step cost the gradient-preference term is 0.1 times
\* the candidate's gradientUp above the current index, 0.1 times its
\* gradientDown below it, and 0 at the current index.
C24_GradientPreference ==
    (pc = "find" /\ lastStep.i >= 0) =>
        \A j \in lastStep.lowerBound .. lastStep.upperBound :
           gradientEffect(resistanceMap[lastStep.i][j], j - lastStep.from)
              = GradientPreference(resistanceMap[lastStep.i][j], j, lastStep.from)

\* what the scalar path finder does: as specified away from the current
\* index, and gradientDown at the current index
ScalarGradientAtCurrentIsDown ==
    (pc = "find" /\ lastStep.i >= 0) =>
        \A j \in lastStep.lowerBound .. lastStep.upperBound :
           gradientEffect(resistanceMap[lastStep.i][j], j - lastStep.from)
              = IF j = lastStep.from THEN resistanceMap[lastStep.i][j].gradientDown
                ELSE GradientPreference(resistanceMap[lastStep.i][j], j, lastStep.from)

\* the p5 path finder applies the term as specified
P5GradientAsSpecified ==
    (pc = "find" /\ lastStep.i >= 0) =>
        \A j \in lastStep.lowerBound .. lastStep.upperBound :
           gradientEffectP5(resistanceMap[lastStep.i][j], j - lastStep.from)
              = GradientPreference(resistanceMap[lastStep.i][j], j, lastStep.from)

----------------------------------------------------------------------------
\* the grid index of a price that is on the grid
LevelOf(price) ==
    CHOOSE q \in DOMAIN heatmapData.priceLevels : heatmapData.priceLevels[q] = price

\* how far step k of a path may be from step k - 1: baseSearchRadius, plus the
\* distance of the candle's level from the previous index where a candle exists
ReachAt(pth, k, base) ==
    base + (IF k < Len0(candlestickData)
            THEN Abs(findClosestPriceIndex(heatmapData.priceLevels, candlestickData[k])
                     - LevelOf(pth[k - 1].price))
            ELSE 0)

\* every point on the grid, every step within reach of the one before
OnGridWithinReach(pth, base) ==
    \A k \in DOMAIN pth :
       /\ \E q \in 0 .. P_ - 1 : heatmapData.priceLevels[q] = pth[k].price
       /\ k > 0 => Abs(LevelOf(pth[k].price) - LevelOf(pth[k - 1].price))
                      <= ReachAt(pth, k, base)

\* C25: every point of every path has a price index inside [0, P-1], and
\* between consecutive steps the index moves by at most
\* baseSearchRadius + |actualPriceIndex - currentIndex|, the second term 0
\* without a candlestick for the step, with baseSearchRadius at least 2.
C25_PathsOnGridWithinReach ==
    LET base == Max(2, (P_ * calculateVolatility(candlestickData) * 2) \div 10000)
    IN  /\ \A p \in DOMAIN allPaths : OnGridWithinReach(allPaths[p], base)
        /\ pc \in {"find", "return"} =>
              /\ (Len0(path) > 0 => baseSearchRadius = base)
              /\ OnGridWithinReach(path, base)
              /\ (Len0(path) > 0 => LevelOf(path[Len0(path) - 1].price) = currentPriceIndex)

\* a finished path with a step longer than baseSearchRadius (towards the
\* candle) and a step without a candle that uses the whole baseSearchRadius
C25_Witness ==
    /\ Len0(allPaths) > 0
    /\ \E k \in DOMAIN allPaths[0] :
          /\ k > 0
          /\ k < Len0(candlestickData)
          /\ Abs(LevelOf(allPaths[0][k].price) - LevelOf(allPaths[0][k - 1].price)) > 2
    /\ \E p \in DOMAIN allPaths : \E k \in DOMAIN allPaths[p] :
          /\ k >= Len0(candlestickData)
          /\ Abs(LevelOf(allPaths[p][k].price) - LevelOf(allPaths[p][k - 1].price)) = 2

----------------------------------------------------------------------------
\* min(100, round((factor + trendFactor + momentumFactor) * weight)) for the
\* values the last iteration read, factor in tenths
StrengthFor(weight, factor10) ==
    Min(100, (weight * (factor10 + Min(10, Abs(trendNow)) + Min(10, Abs(smoothed.obm)))
              + 5) \div 10)

\* the reversal and zero-cross conditions of the last iteration, up or down
ReversalNow(up) ==
    IF up THEN /\ smoothed.obm > 0 /\ smoothed.obmPrev < smoothed.obmPrev2
               /\ smoothed.obm > smoothed.obmPrev /\ trendNow > 0
          ELSE /\ smoothed.obm < 0 /\ smoothed.obmPrev > smoothed.obmPrev2
               /\ smoothed.obm < smoothed.obmPrev /\ trendNow < 0

ZeroCrossNow(up) ==
    IF up THEN smoothed.obmPrev <= 0 /\ smoothed.obm > 0 /\ trendNow > 0
          ELSE smoothed.obmPrev >= 0 /\ smoothed.obm < 0 /\ trendNow < 0

\* the strength of the highest-priority condition that holds
StrengthByRank(divergence, up) ==
    IF divergence THEN StrengthFor(33, 10)
    ELSE IF ReversalNow(up) THEN StrengthFor(25, 8)
    ELSE StrengthFor(20, 6)

\* C26: every BUY or SELL carries a strength between 0 and 100, computed by
\* the highest-priority condition that holds at its index (divergence, then
\* reversal, then zero-cross); every "NONE" carries strength 0.
C26_StrengthByPriority ==
    LET signals   == obmResult.signals
        strengths == obmResult.signalStrengths
        last      == Len0(signals) - 1
    IN  /\ \A k \in DOMAIN signals :
              /\ k \in DOMAIN strengths
              /\ strengths[k] \in 0 .. 100
              /\ signals[k] = "NONE" => strengths[k] = 0
        /\ (pc = "signals" /\ last >= 0 /\ signals[last] = "BUY") =>
              /\ divNow.bullish \/ ReversalNow(TRUE) \/ ZeroCrossNow(TRUE)
              /\ strengths[last] = StrengthByRank(divNow.bullish, TRUE)
        /\ (pc = "signals" /\ last >= 0 /\ signals[last] = "SELL") =>
              /\ divNow.bearish \/ ReversalNow(FALSE) \/ ZeroCrossNow(FALSE)
              /\ strengths[last] = StrengthByRank(divNow.bearish, FALSE)

\* a BUY on a reversal that is also a zero-cross: the reversal's strength
C26_Witness ==
    /\ pc = "signals"
    /\ Len0(obmResult.signals) > 0
    /\ obmResult.signals[Len0(obmResult.signals) - 1] = "BUY"
    /\ ~divNow.bullish /\ ReversalNow(TRUE) /\ ZeroCrossNow(TRUE)
    /\ obmResult.signalStrengths[Len0(obmResult.signals) - 1] = StrengthFor(25, 8)
    /\ StrengthFor(25, 8) # StrengthFor(20, 6)

\* a SELL on a divergence, and a "NONE" before it
C26_WitnessDivergence ==
    /\ pc = "signals"
    /\ Len0(obmResult.signals) > 1
    /\ obmResult.signals[Len0(obmResult.signals) - 1] = "SELL"
    /\ divNow.bearish
    /\ obmResult.signals[Len0(obmResult.signals) - 2] = "NONE"

----------------------------------------------------------------------------
\* C27: every value produced by calculateRefractiveIndices is at most 3, so
\* in a prediction run no candidate is excluded by the "field value > 3"
\* test (cells of value 3 remain eligible) and no step falls back to keeping
\* the current index because its whole window is excluded.
C27_NoCandidateExcluded ==
    /\ \A i \in DOMAIN refractiveIndices : \A j \in DOMAIN refractiveIndices[i] :
          refractiveIndices[i][j] <= 3 * FieldScale
    /\ \A i \in DOMAIN heatmapData.heatmap :
          \A j \in DOMAIN calculateRefractiveIndices(heatmapData)[i] :
             calculateRefractiveIndices(heatmapData)[i][j] <= 3 * FieldScale
    /\ (pc = "find" /\ lastStep.i >= 0) =>
          /\ lastStep.lowerBound <= lastStep.upperBound
          /\ \A j \in lastStep.lowerBound .. lastStep.upperBound :
                ~Impassable(refractiveIndices, lastStep.i, j)
          /\ lastStep.chosen \in lastStep.lowerBound .. lastStep.upperBound
          /\ \A j \in lastStep.lowerBound .. lastStep.upperBound :
                totalResistance(refractiveIndices, heatmapData.priceLevels,
                                heatmapData.timestamps, fAllPaths, fPathIndex,
                                lastStep.i, lastStep.chosen, lastStep.from,
                                lastStep.actualPriceIndex)
                <= totalResistance(refractiveIndices, heatmapData.priceLevels,
                                   heatmapData.timestamps, fAllPaths, fPathIndex,
                                   lastStep.i, j, lastStep.from,
                                   lastStep.actualPriceIndex)

\* a step that moved onto a cell without volume, of value 3
C27_Witness ==
    /\ pc = "find"
    /\ lastStep.i >= 0
    /\ lastStep.chosen # lastStep.from
    /\ heatmapData.heatmap[lastStep.i][lastStep.chosen] = 0
    /\ refractiveIndices[lastStep.i][lastStep.chosen] = 3 * FieldScale

----------------------------------------------------------------------------
\* C28: successive signals other than "NONE" alternate between "BUY" and
\* "SELL", and inLongPosition and inShortPosition are never both true.
C28_SignalsAlternate ==
    LET signals == obmResult.signals
    IN  /\ ~(inLongPosition /\ inShortPosition)
        /\ \A j \in DOMAIN signals : \A k \in DOMAIN signals :
              ( /\ j < k
                /\ signals[j] # "NONE"
                /\ signals[k] # "NONE"
                /\ \A m \in (j + 1) .. (k - 1) : signals[m] = "NONE" )
              => signals[j] # signals[k]
        /\ \A k \in DOMAIN signals :
              (signals[k] # "NONE" /\ \A m \in DOMAIN signals : m > k => signals[m] = "NONE")
              => /\ inLongPosition = (signals[k] = "BUY")
                 /\ inShortPosition = (signals[k] = "SELL")

\* a SELL, then a BUY while the conditions of a SELL hold again later
C28_Witness ==
    /\ pc = "signals"
    /\ \E j \in DOMAIN obmResult.signals : \E k \in DOMAIN obmResult.signals :
          /\ j < k
          /\ obmResult.signals[j] = "SELL"
          /\ obmResult.signals[k] = "BUY"
    /\ inLongPosition /\ ~inShortPosition

\* a BUY condition met while long and cooled down: no second BUY
C28_WitnessHeld ==
    /\ pc = "signals"
    /\ Len0(obmResult.signals) > 0
    /\ obmResult.signals[Len0(obmResult.signals) - 1] = "NONE"
    /\ ZeroCrossNow(TRUE)
    /\ inLongPosition
    /\ (obmI - 1) - lastSignalIndex > signalCooldown

----------------------------------------------------------------------------
\* C29: when the middle entry is replaced with the market-price point, the
\* new point's index is more than minSeparation away from the index of every
\* other entry.
C29_MarketPointKeepsSeparation ==
    (pc = "done" /\ marketChecked = "absent") =>
        LET mid           == Len0(entryPoints) \div 2
            minSeparation == Max(1, (2 * P_) \div (3 * pathCount))
        IN  /\ mid \in DOMAIN entryPoints
            /\ entryPoints[mid].price = << candlestickData[0], 1 >>
            /\ \A q \in DOMAIN heatmapData.priceLevels :
                  Abs(heatmapData.priceLevels[entryPoints[mid].index] - candlestickData[0])
                     <= Abs(heatmapData.priceLevels[q] - candlestickData[0])
            /\ \A k \in DOMAIN entryPoints :
                  k # mid =>
                     Abs(entryPoints[k].index - entryPoints[mid].index) > minSeparation

\* the market point has replaced the middle one of three entries, with an
\* entry minSeparation + 1 away from it
C29_Witness ==
    /\ pc = "done"
    /\ marketChecked = "absent"
    /\ entFn = "determineEntryPoints"
    /\ Len0(entryPoints) >= 3
    /\ \E k \in DOMAIN entryPoints :
          /\ k # Len0(entryPoints) \div 2
          /\ Abs(entryPoints[k].index - entryPoints[Len0(entryPoints) \div 2].index)
                = Max(1, (2 * P_) \div (3 * pathCount)) + 1

----------------------------------------------------------------------------
\* every call made so far has stored its data
AllStored == \A r \in DOMAIN requests : requests[r].state = "stored"

\* C30 (as stated): after overlapping loadData calls have all completed, the
\* cached candlestick and heatmap data and the rendered chart are those of
\* the most recently issued call, whatever the order of the responses.
C30_LatestRequestWins ==
    (Len0(requests) >= 2 /\ AllStored) =>
        /\ cachedCandlestickData = Len0(requests)
        /\ cachedHeatmapData = Len0(requests)
        /\ chart = [shows |-> "data", candlestick |-> Len0(requests),
                    heatmap |-> Len0(requests)]

\* what the code does guarantee: the two caches and the chart always come
\* from one and the same call, a call that has been stored
CachesComeFromOneStoredCall ==
    /\ cachedCandlestickData = cachedHeatmapData
    /\ lastFetchTime = cachedCandlestickData
    /\ cachedCandlestickData # 0 =>
          /\ cachedCandlestickData - 1 \in DOMAIN requests
          /\ requests[cachedCandlestickData - 1].state = "stored"
    /\ chart.shows = "data" =>
          /\ chart.candlestick = cachedCandlestickData
          /\ chart.heatmap = cachedHeatmapData

\* both of two overlapping calls are stored and the page shows the first
StaleResponseShown ==
    /\ Len0(requests) = 2
    /\ AllStored
    /\ cachedCandlestickData = 1
    /\ chart = [shows |-> "data", candlestick |-> 1, heatmap |-> 1]

====
